---- MODULE Spec2Model ----
(***************************************************************************)
(* A model of libnoise's noise-map utilities (noiseutils.cpp): the         *)
(* NoiseMap buffer with its backing store on the heap, and the validation  *)
(* and fill loop of NoiseMapBuilder::Build.                                *)
(*                                                                         *)
(* A method of the C++ code is an operator from a "world" (the NoiseMap    *)
(* objects, the heap, the first memory fault seen and the exception in     *)
(* flight) to the world after the call; an action applies one method call  *)
(* of a client to the current state and records the call in `last`.        *)
(***************************************************************************)
EXTENDS Integers, Sequences, FiniteSets, TLC

\* ------------------------------------------------------------------ bounds

\* Largest width / height a client passes to SetSize, SetDestSize and the
\* coordinate queries (besides -1 and one value above the raster maximum).
MaxW == 1
MaxH == 2
\* Destination width and height of the builds over several source modules.
TileW == 3
TileH == 2
\* Largest height of the runs with two buffers.
PairMaxH == 1
\* Number of heap blocks that can be live at once: one per NoiseMap object
\* plus the temporary block of ReclaimMem.
NumStores == 3
\* Largest height of the runs with two buffers that also trim them.
OwnMaxH == 2

\* ------------------------------------------------------- program constants

\* noiseutils.h (not among the sources): the raster limits and the stride
\* rounding of the library.
RASTER_MAX_WIDTH == 32767
RASTER_MAX_HEIGHT == 32767
RASTER_STRIDE_BOUNDARY == 4

\* The null pointer to a float array, and the null pointer to an object.
NULL == 0
Void == "void"

\* 0x7fffffff, the largest int.
MaxInt == 2147483647
NoRef == "null"

\* The two NoiseMap objects of the client program.
Maps == {"a", "b"}

\* A NOISE_REAL is modelled in one of two ways.  A pair <<n, d>> is the real
\* number n / d, a fraction in lowest terms with d > 0, and the arithmetic on
\* pairs is exact.  A triple <<m, e, "float">> is the float m * 2^e: every
\* operation with a float operand rounds its exact result to the nearest
\* float (24 significant bits, ties to even).
Zero == <<0, 1>>
One == <<1, 1>>
Two == <<2, 1>>

\* The floats a client writes.  A cell of a fresh block holds no written
\* value: its content is indeterminate until it is written, and Indet (no
\* real number) stands for that content.
Values == {One}
Indet == <<0, 0>>
\* m_borderValue is 0.0 after InitObj and whatever SetBorderValue stored.
BorderValues == {Zero} \cup Values

StoreIds == 1..NumStores

\* What a client passes as a width, a height and a cell coordinate.
Widths == (-1..MaxW) \cup {RASTER_MAX_WIDTH + 1}
Heights == (-1..MaxH) \cup {RASTER_MAX_HEIGHT + 1}
XCoords == -1..MaxW
YCoords == -1..MaxH

\* The destination sizes a client gives a builder.
DestWidths == {-1, 0, MaxW, RASTER_MAX_WIDTH + 1}
DestHeights == {-1, 0, MaxH, RASTER_MAX_HEIGHT + 1}

\* The same for the runs with two buffers.
PairWidths == {0, 1}
PairHeights == 0..PairMaxH
PairCoords == {-1, 0}

VARIABLES
    alive,   \* alive[m]: object m has been constructed and not destroyed
    nm,      \* nm[m]: the member variables of NoiseMap object m
    heap,    \* heap[p]: the float array at address p, live or released
    fault,   \* the first memory fault (undefined behaviour) seen, or "none"
    obj,     \* the member variables of the module or gradient of the client
    last     \* the last call: its name, its exception, its return value

vars == <<alive, nm, heap, fault, obj, last>>

\* ------------------------------------------------------------------- heap

FreeStore == [live |-> FALSE, cells |-> <<>>]

\* The member variables after InitObj().
EmptyObj == [p |-> NULL, w |-> 0, h |-> 0, stride |-> 0, mem |-> 0, border |-> Zero]

Min(S) == CHOOSE i \in S : \A j \in S : i <= j

\* The address operator new[] returns: some block that is not live.
FreshId(W) == Min({p \in StoreIds : ~W.heap[p].live})

Fault(W, f) == IF W.fault = "none" THEN [W EXCEPT !.fault = f] ELSE W

\* new float[n]: the block is live and its n cells are uninitialised.
NewArr(W, p, n) ==
    [W EXCEPT !.heap[p] = [live |-> TRUE, cells |-> [i \in 1..n |-> Indet]]]

\* delete[] p: nothing for NULL; releasing a released block is a fault.
DeleteArr(W, p) ==
    IF p = NULL THEN W
    ELSE IF W.heap[p].live THEN [W EXCEPT !.heap[p] = FreeStore]
    ELSE Fault(W, "double_free")

\* *(p + addr) read and written; an access outside a live block is a fault.
ValidAddr(W, p, addr) ==
    /\ p # NULL
    /\ W.heap[p].live
    /\ addr >= 0
    /\ addr < Len(W.heap[p].cells)

ReadCell(W, p, addr) ==
    IF ValidAddr(W, p, addr) THEN W.heap[p].cells[addr + 1] ELSE Indet

WriteCell(W, p, addr, v) ==
    IF ValidAddr(W, p, addr) THEN [W EXCEPT !.heap[p].cells[addr + 1] = v]
    ELSE Fault(W, "bad_write")

\* --------------------------------------------------- noiseutils.h helpers

CalcStride(width) ==
    ((width + RASTER_STRIDE_BOUNDARY - 1) \div RASTER_STRIDE_BOUNDARY)
        * RASTER_STRIDE_BOUNDARY

CalcMinMemUsage(width, height) == CalcStride(width) * height

\* GetSlabPtr(x, y) / GetConstSlabPtr(x, y), as an offset from m_pNoiseMap.
SlabAddr(o, x, y) == x + o.stride * y

\* ------------------------------------------------------ NoiseMap methods

\* The world a method runs in, and the exception it leaves in flight.
World ==
    [nm |-> nm, heap |-> heap, fault |-> fault, exc |-> "none", evals |-> 0,
     sink |-> <<>>, writes |-> <<>>]

Throw(W, e) == [W EXCEPT !.exc = e]

InitObj(W, m) == [W EXCEPT !.nm[m] = EmptyObj]

DeleteNoiseMapAndReset(W, m) == InitObj(DeleteArr(W, W.nm[m].p), m)

\* The test GetValue and SetValue make before they touch the block.
InMap(o, x, y) ==
    /\ o.p # NULL
    /\ x >= 0 /\ x < o.w
    /\ y >= 0 /\ y < o.h

\* GetValue with `x <= m_width` for `x < m_width`.
GetValue_OffByOne(W, m, x, y) ==
    IF W.nm[m].p # NULL /\ x >= 0 /\ x <= W.nm[m].w /\ y >= 0 /\ y < W.nm[m].h
    THEN ReadCell(W, W.nm[m].p, SlabAddr(W.nm[m], x, y))
    ELSE W.nm[m].border

GetValue(W, m, x, y) ==
    IF InMap(W.nm[m], x, y)
    THEN ReadCell(W, W.nm[m].p, SlabAddr(W.nm[m], x, y))
    ELSE W.nm[m].border

\* SetValue with `y <= m_height` for `y < m_height`.
SetValue_OffByOne(W, m, x, y, value) ==
    IF W.nm[m].p # NULL /\ x >= 0 /\ x < W.nm[m].w /\ y >= 0 /\ y <= W.nm[m].h
    THEN WriteCell(W, W.nm[m].p, SlabAddr(W.nm[m], x, y), value)
    ELSE W

SetValue(W, m, x, y, value) ==
    IF InMap(W.nm[m], x, y)
    THEN WriteCell(W, W.nm[m].p, SlabAddr(W.nm[m], x, y), value)
    ELSE W

\* The cells the loops of Clear, CopyNoiseMap and Build walk over: row y
\* starts at GetSlabPtr(0, y) and the pointer advances width times.
RowAddrs(o, width, height) ==
    {SlabAddr(o, 0, y) + x : x \in 0..(width - 1), y \in 0..(height - 1)}

\* Stores f[a] at every address a of addrs of block p.
WriteCells(W, p, addrs, f) ==
    IF addrs = {} THEN W
    ELSE IF \A a \in addrs : ValidAddr(W, p, a)
    THEN [W EXCEPT !.heap[p].cells =
             [i \in DOMAIN @ |-> IF (i - 1) \in addrs THEN f[i - 1] ELSE @[i]]]
    ELSE Fault(W, "bad_write")

Clear(W, m, value) ==
    IF W.nm[m].p # NULL
    THEN LET addrs == RowAddrs(W.nm[m], W.nm[m].w, W.nm[m].h)
         IN  WriteCells(W, W.nm[m].p, addrs, [a \in addrs |-> value])
    ELSE W

\* SetSize that also reallocates when the capacity is exactly the required one.
SetSize_ReallocOnEqual(W, m, width, height, allocOk) ==
    IF width < 0 \/ height < 0
       \/ width > RASTER_MAX_WIDTH \/ height > RASTER_MAX_HEIGHT
    THEN Throw(W, "InvalidParam")
    ELSE IF width = 0 \/ height = 0
    THEN DeleteNoiseMapAndReset(W, m)
    ELSE LET newMemUsage == CalcMinMemUsage(width, height)
             W1 == IF W.nm[m].mem <= newMemUsage
                   THEN LET Wd == DeleteNoiseMapAndReset(W, m)
                            p == FreshId(Wd)
                        IN  IF allocOk
                            THEN [NewArr(Wd, p, newMemUsage) EXCEPT
                                     !.nm[m].p = p,
                                     !.nm[m].mem = newMemUsage]
                            ELSE Throw(Wd, "OutOfMemory")
                   ELSE W
         IN  IF W1.exc # "none" THEN W1
             ELSE [W1 EXCEPT !.nm[m].stride = CalcStride(width),
                             !.nm[m].w = width,
                             !.nm[m].h = height]

\* SetSize that reallocates whenever the capacity differs from the required one.
SetSize_ReallocOnShrink(W, m, width, height, allocOk) ==
    IF width < 0 \/ height < 0
       \/ width > RASTER_MAX_WIDTH \/ height > RASTER_MAX_HEIGHT
    THEN Throw(W, "InvalidParam")
    ELSE IF width = 0 \/ height = 0
    THEN DeleteNoiseMapAndReset(W, m)
    ELSE LET newMemUsage == CalcMinMemUsage(width, height)
             W1 == IF W.nm[m].mem # newMemUsage
                   THEN LET Wd == DeleteNoiseMapAndReset(W, m)
                            p == FreshId(Wd)
                        IN  IF allocOk
                            THEN [NewArr(Wd, p, newMemUsage) EXCEPT
                                     !.nm[m].p = p,
                                     !.nm[m].mem = newMemUsage]
                            ELSE Throw(Wd, "OutOfMemory")
                   ELSE W
         IN  IF W1.exc # "none" THEN W1
             ELSE [W1 EXCEPT !.nm[m].stride = CalcStride(width),
                             !.nm[m].w = width,
                             !.nm[m].h = height]

\* SetSize without the test `width < 0`.
SetSize_NoNegativeCheck(W, m, width, height, allocOk) ==
    IF height < 0
       \/ width > RASTER_MAX_WIDTH \/ height > RASTER_MAX_HEIGHT
    THEN Throw(W, "InvalidParam")
    ELSE IF width = 0 \/ height = 0
    THEN DeleteNoiseMapAndReset(W, m)
    ELSE LET newMemUsage == CalcMinMemUsage(width, height)
             W1 == IF W.nm[m].mem < newMemUsage
                   THEN LET Wd == DeleteNoiseMapAndReset(W, m)
                            p == FreshId(Wd)
                        IN  IF allocOk
                            THEN [NewArr(Wd, p, newMemUsage) EXCEPT
                                     !.nm[m].p = p,
                                     !.nm[m].mem = newMemUsage]
                            ELSE Throw(Wd, "OutOfMemory")
                   ELSE W
         IN  IF W1.exc # "none" THEN W1
             ELSE [W1 EXCEPT !.nm[m].stride = CalcStride(width),
                             !.nm[m].w = width,
                             !.nm[m].h = height]

\* SetSize that keeps the block when a dimension is zero.
SetSize_KeepOnZero(W, m, width, height, allocOk) ==
    IF width < 0 \/ height < 0
       \/ width > RASTER_MAX_WIDTH \/ height > RASTER_MAX_HEIGHT
    THEN Throw(W, "InvalidParam")
    ELSE IF width = 0 \/ height = 0
    THEN [W EXCEPT !.nm[m].stride = CalcStride(width),
                   !.nm[m].w = width,
                   !.nm[m].h = height]
    ELSE LET newMemUsage == CalcMinMemUsage(width, height)
             W1 == IF W.nm[m].mem < newMemUsage
                   THEN LET Wd == DeleteNoiseMapAndReset(W, m)
                            p == FreshId(Wd)
                        IN  IF allocOk
                            THEN [NewArr(Wd, p, newMemUsage) EXCEPT
                                     !.nm[m].p = p,
                                     !.nm[m].mem = newMemUsage]
                            ELSE Throw(Wd, "OutOfMemory")
                   ELSE W
         IN  IF W1.exc # "none" THEN W1
             ELSE [W1 EXCEPT !.nm[m].stride = CalcStride(width),
                             !.nm[m].w = width,
                             !.nm[m].h = height]

SetSize(W, m, width, height, allocOk) ==
    IF width < 0 \/ height < 0
       \/ width > RASTER_MAX_WIDTH \/ height > RASTER_MAX_HEIGHT
    THEN Throw(W, "InvalidParam")
    ELSE IF width = 0 \/ height = 0
    THEN DeleteNoiseMapAndReset(W, m)
    ELSE LET newMemUsage == CalcMinMemUsage(width, height)
             W1 == IF W.nm[m].mem < newMemUsage
                   THEN LET Wd == DeleteNoiseMapAndReset(W, m)
                            p == FreshId(Wd)
                        IN  IF allocOk
                            THEN [NewArr(Wd, p, newMemUsage) EXCEPT
                                     !.nm[m].p = p,
                                     !.nm[m].mem = newMemUsage]
                            ELSE Throw(Wd, "OutOfMemory")
                   ELSE W
         IN  IF W1.exc # "none" THEN W1
             ELSE [W1 EXCEPT !.nm[m].stride = CalcStride(width),
                             !.nm[m].w = width,
                             !.nm[m].h = height]

\* ReclaimMem without the memcpy into the new block.
ReclaimMem_NoCopy(W, m, allocOk) ==
    LET o == W.nm[m]
        newMemUsage == CalcMinMemUsage(o.w, o.h)
    IN  IF o.mem > newMemUsage
        THEN IF ~allocOk THEN Throw(W, "OutOfMemory")
             ELSE LET pNew == FreshId(W)
                      W1 == NewArr(W, pNew, newMemUsage)
                      W3 == DeleteArr(W1, o.p)
                  IN  [W3 EXCEPT !.nm[m].p = pNew, !.nm[m].mem = newMemUsage]
        ELSE W

ReclaimMem(W, m, allocOk) ==
    LET o == W.nm[m]
        newMemUsage == CalcMinMemUsage(o.w, o.h)
    IN  IF o.mem > newMemUsage
        THEN IF ~allocOk THEN Throw(W, "OutOfMemory")
             ELSE LET pNew == FreshId(W)
                      W1 == NewArr(W, pNew, newMemUsage)
                      \* memcpy(pNewNoiseMap, m_pNoiseMap, newMemUsage floats)
                      W2 == IF \A a \in 0..(newMemUsage - 1) : ValidAddr(W1, o.p, a)
                            THEN [W1 EXCEPT !.heap[pNew].cells =
                                     [i \in 1..newMemUsage |-> W1.heap[o.p].cells[i]]]
                            ELSE Fault(W1, "bad_read")
                      W3 == DeleteArr(W2, o.p)
                  IN  [W3 EXCEPT !.nm[m].p = pNew, !.nm[m].mem = newMemUsage]
        ELSE W

\* CopyNoiseMap that copies the members, the pointer included.
CopyNoiseMap_Shallow(W, m, source, allocOk) ==
    [DeleteArr(W, W.nm[m].p) EXCEPT !.nm[m] = W.nm[source]]

CopyNoiseMap(W, m, source, allocOk) ==
    LET W1 == SetSize(W, m, W.nm[source].w, W.nm[source].h, allocOk)
    IN  IF W1.exc # "none" THEN W1
        ELSE LET src == W1.nm[source]
                 dst == W1.nm[m]
                 cells == {<<x, y>> : x \in 0..(src.w - 1), y \in 0..(src.h - 1)}
                 addrs == {SlabAddr(dst, 0, c[2]) + c[1] : c \in cells}
                 from(a) == CHOOSE c \in cells : SlabAddr(dst, 0, c[2]) + c[1] = a
                 W2 == IF \A c \in cells :
                              ValidAddr(W1, src.p, SlabAddr(src, 0, c[2]) + c[1])
                       THEN WriteCells(W1, dst.p, addrs,
                                [a \in addrs |->
                                    ReadCell(W1, src.p,
                                        SlabAddr(src, 0, from(a)[2]) + from(a)[1])])
                       ELSE Fault(W1, "bad_read")
             IN  [W2 EXCEPT !.nm[m].border = W2.nm[source].border]

\* TakeOwnership without `delete[] m_pNoiseMap`.
TakeOwnership_NoDelete(W, m, source) ==
    LET W2 == [W EXCEPT !.nm[m].mem = W.nm[source].mem,
                        !.nm[m].h = W.nm[source].h,
                        !.nm[m].p = W.nm[source].p,
                        !.nm[m].stride = W.nm[source].stride,
                        !.nm[m].w = W.nm[source].w]
    IN  InitObj(W2, source)

\* TakeOwnership without source.InitObj().
TakeOwnership_NoReset(W, m, source) ==
    LET W1 == DeleteArr(W, W.nm[m].p)
    IN  [W1 EXCEPT !.nm[m].mem = W1.nm[source].mem,
                   !.nm[m].h = W1.nm[source].h,
                   !.nm[m].p = W1.nm[source].p,
                   !.nm[m].stride = W1.nm[source].stride,
                   !.nm[m].w = W1.nm[source].w]

TakeOwnership(W, m, source) ==
    LET W1 == DeleteArr(W, W.nm[m].p)
        W2 == [W1 EXCEPT !.nm[m].mem = W1.nm[source].mem,
                         !.nm[m].h = W1.nm[source].h,
                         !.nm[m].p = W1.nm[source].p,
                         !.nm[m].stride = W1.nm[source].stride,
                         !.nm[m].w = W1.nm[source].w]
    IN  InitObj(W2, source)

\* noiseutils.h: m_borderValue = borderValue.
SetBorderValue(W, m, borderValue) == [W EXCEPT !.nm[m].border = borderValue]

\* ------------------------------------------------------- real arithmetic
\* The operators of C++ on NOISE_REAL and float operands: + - * / < and the
\* conversion of an int.

\* F (x), F (x, y): the value of an expression under a name.
Bind(x, F(_)) == CHOOSE r \in {F(v) : v \in {x}} : TRUE

Bind2(x, y, F(_, _)) == CHOOSE r \in {F(v, w) : v \in {x}, w \in {y}} : TRUE

Abs(i) == IF i < 0 THEN -i ELSE i

RECURSIVE Gcd(_, _)
Gcd(i, j) == IF j = 0 THEN i ELSE Gcd(j, i % j)

\* The fraction n / d (d # 0) in lowest terms with a positive denominator.
Frac(n, d) ==
    Bind(Gcd(Abs(n), Abs(d)), LAMBDA g :
        IF d < 0 THEN <<(-n) \div g, (-d) \div g>> ELSE <<n \div g, d \div g>>)

ToReal(i) == <<i, 1>>

\* ---- floats
\* A float is <<m, e, "float">>, the number m * 2^e with |m| < 2^24, written
\* with an odd m; 0 is <<0, 0, "float">>.  The exponent is not limited: the
\* numbers of the model are far from the overflow and underflow of a float.

IsFloat(a) == Len(a) = 3

Neg(a) == [a EXCEPT ![1] = -@]

\* r with the sign changed where negative holds.
WithSign(negative, r) == IF negative THEN Neg(r) ELSE r

\* m * 2^e with the factors 2 of m moved into the exponent, for |m| < 2^30.
Canon(m, e) ==
    IF m = 0 THEN <<0, 0, "float">>
    ELSE Bind(CHOOSE j \in 0..29 : m % 2^j = 0 /\ m % 2^(j + 1) # 0, LAMBDA k :
            <<m \div 2^k, e + k, "float">>)

\* The number of bits of n, for 0 <= n < 2^30.
BitLen(n) == CHOOSE s \in 0..30 : n < 2^s /\ (s = 0 \/ n >= 2^(s - 1))

\* m * 2^e for 0 < m < 2^24, with the mantissa scaled into 2^23 .. 2^24 - 1.
Norm(m, e) == Bind(24 - BitLen(m), LAMBDA k : <<m * 2^k, e - k>>)

\* The float nearest to (hi * 2^24 + lo) * 2^e, ties to even, for
\* 0 <= lo < 2^24 and 0 <= hi < 2^27.  sticky: the number rounded is a little
\* larger than that (by less than 2^e).
RoundBig(hi, lo, sticky, e) ==
    IF hi = 0 THEN Canon(lo, e)
    ELSE Bind(BitLen(hi), LAMBDA s :
            LET m == IF s <= 24 THEN hi * 2^(24 - s) + lo \div 2^s
                     ELSE hi \div 2^(s - 24)
                rem == IF s <= 24 THEN lo % 2^s
                       ELSE (hi % 2^(s - 24)) * 2^24 + lo
                half == 2^(s - 1)
                up == rem > half \/ (rem = half /\ (sticky \/ m % 2 = 1))
            IN  Canon(IF up THEN m + 1 ELSE m, e + s))

\* The float nearest to (q + r / d) * 2^e for 0 <= r < d <= 2^25: the
\* quotient is extended, six bits at a time, until it has more than 24 bits.
RECURSIVE Extend(_, _, _, _)
Extend(q, r, d, e) ==
    IF q >= 2^24 THEN RoundBig(q \div 2^24, q % 2^24, r > 0, e)
    ELSE Extend(64 * q + (64 * r) \div d, (64 * r) % d, d, e - 6)

\* The float nearest to (a / d) * 2^e for a >= 0 and d > 0.
DivRound(a, d, e) ==
    IF a % d = 0 /\ a \div d < 2^24 THEN Canon(a \div d, e)
    ELSE Extend(a \div d, a % d, d, e)

\* The real q held in a float: the conversion rounds to the nearest float.
Float(q) == WithSign(q[1] < 0, DivRound(Abs(q[1]), q[2], 0))

AsFloat(a) == IF IsFloat(a) THEN a ELSE Float(a)

\* The real number a float holds, as a fraction.
ToPair(f) == IF f[2] >= 0 THEN <<f[1] * 2^f[2], 1>> ELSE Frac(f[1], 2^(-f[2]))

\* a + b on floats.  The operand of the larger magnitude is written over the
\* exponent of the other one, as hi * 2^24 + lo; an operand 2^26 times
\* smaller than the other does not change it.
FloatPlus(a, b) ==
    IF a[1] = 0 THEN b
    ELSE IF b[1] = 0 THEN a
    ELSE Bind2(Norm(Abs(a[1]), a[2]), Norm(Abs(b[1]), b[2]), LAMBDA na, nb :
        LET swap == nb[2] > na[2] \/ (nb[2] = na[2] /\ nb[1] > na[1])
            big == IF swap THEN nb ELSE na
            small == IF swap THEN na ELSE nb
            negative == IF swap THEN b[1] < 0 ELSE a[1] < 0
            k == big[2] - small[2]
            hi1 == IF k <= 24 THEN big[1] \div 2^(24 - k) ELSE big[1] * 2^(k - 24)
            lo1 == IF k <= 24 THEN (big[1] % 2^(24 - k)) * 2^k ELSE 0
            lo2 == IF (a[1] < 0) = (b[1] < 0) THEN lo1 + small[1] ELSE lo1 - small[1]
        IN  WithSign(negative,
                     IF k >= 26 THEN Canon(big[1], big[2])
                     ELSE RoundBig(hi1 + lo2 \div 2^24, lo2 % 2^24, FALSE, small[2])))

\* a * b on floats, by long multiplication of the halves of the mantissas.
FloatTimes(a, b) ==
    LET x == Abs(a[1])
        y == Abs(b[1])
        mid == (x \div 2^12) * (y % 2^12) + (x % 2^12) * (y \div 2^12)
        low == (x % 2^12) * (y % 2^12) + (mid % 2^12) * 2^12
        hi == (x \div 2^12) * (y \div 2^12) + mid \div 2^12 + low \div 2^24
    IN  WithSign((a[1] < 0) # (b[1] < 0), RoundBig(hi, low % 2^24, FALSE, a[2] + b[2]))

\* a / b on floats, b # 0.
FloatOver(a, b) ==
    WithSign((a[1] < 0) # (b[1] < 0), DivRound(Abs(a[1]), Abs(b[1]), a[2] - b[2]))

\* The largest integer whose square is at most n, for 0 < n < 2^26, by
\* Newton's iteration from x above the root.
RECURSIVE ISqrt(_, _)
ISqrt(n, x) ==
    LET y == (x + n \div x) \div 2
    IN  IF y >= x THEN x ELSE ISqrt(n, y)

\* The float nearest to the square root of (root^2 + rem) * 2^(2 * e): the
\* root is extended bit by bit until it has more than 24 bits.
RECURSIVE ExtendRoot(_, _, _)
ExtendRoot(root, rem, e) ==
    IF root >= 2^25 THEN RoundBig(root \div 2^24, root % 2^24, rem > 0, e)
    ELSE IF 4 * rem >= 4 * root + 1
         THEN ExtendRoot(2 * root + 1, 4 * rem - (4 * root + 1), e - 1)
         ELSE ExtendRoot(2 * root, 4 * rem, e - 1)

\* The square root of m * 2^e for an even e and 2^23 <= m < 2^25.
SqrtEven(m, e) ==
    Bind(ISqrt(m, 2^13), LAMBDA root : ExtendRoot(root, m - root * root, e \div 2))

\* sqrt (a) on a float a >= 0.
FloatSqrt(a) ==
    IF a[1] = 0 THEN a
    ELSE Bind(Norm(a[1], a[2]), LAMBDA n :
            IF n[2] % 2 = 0 THEN SqrtEven(n[1], n[2]) ELSE SqrtEven(2 * n[1], n[2] - 1))

\* ---- the operators of C++ on NOISE_REAL

\* The sum is formed over the least common denominator.
Plus(a, b) ==
    IF IsFloat(a) \/ IsFloat(b) THEN FloatPlus(AsFloat(a), AsFloat(b))
    ELSE Bind(Gcd(a[2], b[2]), LAMBDA g :
            Frac(a[1] * (b[2] \div g) + b[1] * (a[2] \div g), a[2] * (b[2] \div g)))

Minus(a, b) == Plus(a, Neg(b))

\* Common factors are cancelled before the products are formed.
Times(a, b) ==
    IF IsFloat(a) \/ IsFloat(b) THEN FloatTimes(AsFloat(a), AsFloat(b))
    ELSE Bind2(Gcd(Abs(a[1]), b[2]), Gcd(Abs(b[1]), a[2]), LAMBDA g1, g2 :
            Frac((a[1] \div g1) * (b[1] \div g2), (a[2] \div g2) * (b[2] \div g1)))

\* a / b for b # 0.
Over(a, b) ==
    IF IsFloat(a) \/ IsFloat(b) THEN FloatOver(AsFloat(a), AsFloat(b))
    ELSE Times(a, Frac(b[2], b[1]))

\* a < b.  On fractions the integer parts are compared first, then the
\* fractional parts; on floats the sign of a - b decides.
Less(a, b) ==
    IF IsFloat(a) \/ IsFloat(b) THEN FloatPlus(AsFloat(a), Neg(AsFloat(b)))[1] < 0
    ELSE LET ia == a[1] \div a[2]
             ib == b[1] \div b[2]
         IN  IF ia # ib THEN ia < ib
             ELSE (a[1] % a[2]) * b[2] < (b[1] % b[2]) * a[2]

\* sqrt (a) for a >= 0, on floats.
Sqrt(a) == FloatSqrt(AsFloat(a))

\* The float a * 2^e (a >= 0, e < j) less the multiples of 2^j in it.
FloatRem(a, e, j) == IF j - e >= 24 THEN Canon(a, e) ELSE Canon(a % 2^(j - e), e)

\* fmod (n, m) for m = 2^j: n minus m times the quotient n / m rounded
\* towards zero; the result has the sign of n and is exact.
Fmod(n, m) ==
    IF ~IsFloat(n)
    THEN WithSign(n[1] < 0,
                  Frac(((Abs(n[1]) \div n[2]) % m[1]) * n[2] + (Abs(n[1]) % n[2]), n[2]))
    ELSE Bind(CHOOSE k \in 0..30 : m[1] = 2^k, LAMBDA j :
            IF n[2] >= j THEN <<0, 0, "float">>
            ELSE WithSign(n[1] < 0, FloatRem(Abs(n[1]), n[2], j)))

\* (int)floor (a)
Floor(a) ==
    IF ~IsFloat(a) THEN a[1] \div a[2]
    ELSE IF a[2] >= 0 THEN a[1] * 2^a[2]
    ELSE IF a[2] < -30 THEN (IF a[1] < 0 THEN -1 ELSE 0)
    ELSE a[1] \div 2^(-a[2])

\* (int)a: the fraction is dropped.
Trunc(a) ==
    IF ~IsFloat(a) THEN (IF a[1] < 0 THEN -((-a[1]) \div a[2]) ELSE a[1] \div a[2])
    ELSE IF a[2] >= 0 THEN a[1] * 2^a[2]
    ELSE IF a[2] < -30 THEN 0
    ELSE IF a[1] < 0 THEN -((-a[1]) \div 2^(-a[2])) ELSE a[1] \div 2^(-a[2])

\* ---------------------------------------------------------------- interp.h

\* CubicInterp with q = (n0 - n1) + p.
CubicInterp_WrongQ(n0, n1, n2, n3, a) ==
    Bind(Minus(Minus(n3, n2), Minus(n0, n1)), LAMBDA p :
        Plus(Plus(Plus(Times(Times(Times(p, a), a), a),
                       Times(Times(Plus(Minus(n0, n1), p), a), a)),
                  Times(Minus(n2, n0), a)),
             n1))

\* p * a * a * a + q * a * a + r * a + s, evaluated from the left, with
\* p = (n3 - n2) - (n0 - n1), q = (n0 - n1) - p, r = n2 - n0 and s = n1.
CubicInterp(n0, n1, n2, n3, a) ==
    Bind(Minus(Minus(n3, n2), Minus(n0, n1)), LAMBDA p :
        Plus(Plus(Plus(Times(Times(Times(p, a), a), a),
                       Times(Times(Minus(Minus(n0, n1), p), a), a)),
                  Times(Minus(n2, n0), a)),
             n1))

\* ((1.0f - a) * n0) + (a * n1)
LinearInterp(n0, n1, a) == Plus(Times(Minus(One, a), n0), Times(a, n1))

\* a * a * (3.0f - 2.0f * a)
SCurve3(a) == Times(Times(a, a), Minus(ToReal(3), Times(Two, a)))

\* (6.0f * a5) - (15.0f * a4) + (10.0f * a3) with a5 = a4 * a.
SCurve5Of(a3, a4, a) ==
    Plus(Minus(Times(ToReal(6), Times(a4, a)), Times(ToReal(15), a4)),
         Times(ToReal(10), a3))

\* SCurve5 (a), where a3 = a * a * a and a4 = a3 * a.
SCurve5(a) == Bind(Times(Times(a, a), a), LAMBDA a3 : SCurve5Of(a3, Times(a3, a), a))

\* -------------------------------------------------------------- noisegen.h
\* An int is a number in -2^31 .. 2^31 - 1.  Signed overflow is undefined:
\* an operation that overflows is marked, and its result is the one of a
\* build that wraps around (the low 32 bits of the exact result).

\* The four bytes of an int in two's complement, the low byte first.
Bytes(v) == <<v % 256, (v \div 256) % 256, (v \div 65536) % 256, (v \div 2^24) % 256>>

\* The int whose bytes are r.
FromBytes(r) ==
    (IF r[4] >= 128 THEN r[4] - 256 ELSE r[4]) * 2^24 + r[3] * 2^16 + r[2] * 256 + r[1]

\* a * b fits an int.  |a| * |b| is compared with 2^31 - 1 by a division;
\* -2^31 is the one product of magnitude 2^31 that fits.
MulFits(a, b) ==
    \/ a = 0 \/ b = 0
    \/ /\ a > -MaxInt - 1 /\ b > -MaxInt - 1
       /\ \/ Abs(a) <= MaxInt \div Abs(b)
          \/ /\ (a < 0) # (b < 0)
             /\ Abs(b) = MaxInt \div Abs(a) + 1
             /\ MaxInt % Abs(a) = Abs(a) - 1
    \/ a = -MaxInt - 1 /\ b = 1
    \/ b = -MaxInt - 1 /\ a = 1

AddFits(a, b) ==
    IF b >= 0 THEN a <= MaxInt - b ELSE a >= (-MaxInt - 1) - b

\* The low 32 bits of a * b, by long multiplication of the bytes.
WrapMul(a, b) ==
    Bind2(Bytes(a), Bytes(b), LAMBDA x, y :
        LET c0 == x[1] * y[1]
            c1 == x[1] * y[2] + x[2] * y[1] + c0 \div 256
            c2 == x[1] * y[3] + x[2] * y[2] + x[3] * y[1] + c1 \div 256
            c3 == x[1] * y[4] + x[2] * y[3] + x[3] * y[2] + x[4] * y[1] + c2 \div 256
        IN  FromBytes(<<c0 % 256, c1 % 256, c2 % 256, c3 % 256>>))

\* The low 32 bits of a + b.
WrapAdd(a, b) ==
    Bind2(Bytes(a), Bytes(b), LAMBDA x, y :
        LET c0 == x[1] + y[1]
            c1 == x[2] + y[2] + c0 \div 256
            c2 == x[3] + y[3] + c1 \div 256
            c3 == x[4] + y[4] + c2 \div 256
        IN  FromBytes(<<c0 % 256, c1 % 256, c2 % 256, c3 % 256>>))

\* v & 0x7fffffff: the sign bit is cleared.
And31(v) == IF v >= 0 THEN v ELSE (v + MaxInt) + 1

\* Bit i of a ^ b, in its place, for a >= 0 and b >= 0.
XorBit(a, b, i) == ((((a \div 2^i) % 2) + ((b \div 2^i) % 2)) % 2) * 2^i

\* a ^ b for two bytes.
XorByte(a, b) ==
    XorBit(a, b, 0) + XorBit(a, b, 1) + XorBit(a, b, 2) + XorBit(a, b, 3)
    + XorBit(a, b, 4) + XorBit(a, b, 5) + XorBit(a, b, 6) + XorBit(a, b, 7)

\* a ^ b for a >= 0 and b >= 0, byte by byte.
Xor(a, b) ==
    XorByte(a % 256, b % 256)
    + 256 * XorByte((a \div 256) % 256, (b \div 256) % 256)
    + 65536 * XorByte((a \div 65536) % 256, (b \div 65536) % 256)
    + 2^24 * XorByte(a \div 2^24, b \div 2^24)

\* An int in a computation: its value in a wrapping build, and whether an
\* operation on the way to it has overflowed.
Exact(v) == [overflow |-> FALSE, value |-> v]

IntMul(a, b) ==
    [overflow |-> a.overflow \/ b.overflow \/ ~MulFits(a.value, b.value),
     value |-> WrapMul(a.value, b.value)]

IntAdd(a, b) ==
    [overflow |-> a.overflow \/ b.overflow \/ ~AddFits(a.value, b.value),
     value |-> WrapAdd(a.value, b.value)]

\* n & 0x7fffffff
IntMask(n) == [n EXCEPT !.value = And31(@)]

\* n = (X_NOISE_GEN * x + Y_NOISE_GEN * y + SEED_NOISE_GEN * seed) & 0x7fffffff
HashSum(x, y, seed) ==
    IntMask(IntAdd(IntAdd(IntMul(Exact(1619), Exact(x)), IntMul(Exact(6971), Exact(y))),
                   IntMul(Exact(1013), Exact(seed))))

\* n = (n >> 13) ^ n
HashShift(n) == [n EXCEPT !.value = Xor(@ \div 2^13, @)]

\* n * (n * n * 60493 + 19990303) + 1376312589
HashPoly(n) ==
    IntAdd(IntMul(n, IntAdd(IntMul(IntMul(n, n), Exact(60493)), Exact(19990303))),
           Exact(1376312589))

\* IntValueNoise2D without the mask on the value returned.
IntValueNoise2D_NoMask(x, y, seed) == HashPoly(HashShift(HashSum(x, y, seed)))

\* IntValueNoise2D (x, y, seed): the value a wrapping build returns, and
\* whether one of the ten multiplications and additions, all of them on
\* ints, has overflowed.
IntValueNoise2D(x, y, seed) == IntMask(HashPoly(HashShift(HashSum(x, y, seed))))

\* MakeInt32Range that returns n itself above 2^30.
MakeInt32Range_NoFold(n) ==
    IF ~Less(n, ToReal(2^30))
    THEN n
    ELSE IF ~Less(ToReal(-(2^30)), n)
    THEN Plus(Times(Two, Fmod(n, ToReal(2^30))), ToReal(2^30))
    ELSE n

\* MakeInt32Range (n) for a finite n.
MakeInt32Range(n) ==
    IF ~Less(n, ToReal(2^30))
    THEN Minus(Times(Two, Fmod(n, ToReal(2^30))), ToReal(2^30))
    ELSE IF ~Less(ToReal(-(2^30)), n)
    THEN Plus(Times(Two, Fmod(n, ToReal(2^30))), ToReal(2^30))
    ELSE n

\* The value-noise value of an integer-noise value h:
\* 1.0f - ((NOISE_REAL)h / 1073741824.0f).
NoiseOf(h) == Minus(One, Over(Float(ToReal(h)), ToReal(2^30)))

\* ValueNoise2D (x, y, seed), with the overflow mark of IntValueNoise2D.
ValueNoise2D(x, y, seed) ==
    Bind(IntValueNoise2D(x, y, seed), LAMBDA h :
        [value |-> NoiseOf(h.value), overflow |-> h.overflow])

\* What a build makes of a call that may have overflowed: a build that wraps
\* around returns the value, a build that traps on overflow stops the
\* program.
Builds == {"wrap", "trap"}

OnBuild(build, r) ==
    IF r.overflow /\ build = "trap"
    THEN [abort |-> TRUE, value |-> Void, overflow |-> TRUE]
    ELSE [abort |-> FALSE, value |-> r.value, overflow |-> r.overflow]

\* ------------------------------------------------------- NoiseMapBuilder

\* The source modules a client gives a builder: Const1 is 1 at every point
\* of the plane and Bump is x * x * (z * z + 1).
Modules == {"Const1", "Bump"}

\* The source modules a client connects to a combiner or modifier module:
\* those of a builder and Ramp, which is x + 2 * z.
Sources == Modules \cup {"Ramp"}

\* planeModel.GetValue(x, z), m_pSourceModule[i]->GetValue(x, z): the value
\* of the source module at (x, z).
ModuleGetValue(module, x, z) ==
    CASE module = "Const1" -> One
      [] module = "Bump" -> Times(Times(x, x), Plus(Times(z, z), One))
      [] module = "Ramp" -> Plus(x, Times(Two, z))

\* xExtent = m_upperXBound - m_lowerXBound, and the same along z.
XExtent(b) == Minus(ToReal(b.upperX), ToReal(b.lowerX))

ZExtent(b) == Minus(ToReal(b.upperZ), ToReal(b.lowerZ))

\* xDelta = xExtent / (NOISE_REAL)m_destWidth, and the same along z.
XDelta(b) == Over(XExtent(b), ToReal(b.destW))

ZDelta(b) == Over(ZExtent(b), ToReal(b.destH))

\* xCur with xDelta = xExtent / (m_destWidth - 1), the step of a grid that
\* has its last column on the upper bound.
XCur_Inclusive(b, x) ==
    Plus(ToReal(b.lowerX),
         Times(ToReal(x), Over(XExtent(b), ToReal(IF b.destW > 1 THEN b.destW - 1 ELSE 1))))

\* xCur when the inner loop reaches column x: it starts at m_lowerXBound and
\* every column adds xDelta to it.
RECURSIVE XCur(_, _)
XCur(b, x) == IF x = 0 THEN ToReal(b.lowerX) ELSE Plus(XCur(b, x - 1), XDelta(b))

\* zCur when the outer loop reaches row z.
RECURSIVE ZCur(_, _)
ZCur(b, z) == IF z = 0 THEN ToReal(b.lowerZ) ELSE Plus(ZCur(b, z - 1), ZDelta(b))

\* xBlend without the `1.0f -`.
XBlend_Raw(b, xCur) == Over(Minus(xCur, ToReal(b.lowerX)), XExtent(b))

\* xBlend = 1.0f - ((xCur - m_lowerXBound) / xExtent)
XBlend(b, xCur) == Minus(One, Over(Minus(xCur, ToReal(b.lowerX)), XExtent(b)))

\* zBlend without the `1.0f -`.
ZBlend_Raw(b, zCur) == Over(Minus(zCur, ToReal(b.lowerZ)), ZExtent(b))

\* zBlend = 1.0f - ((zCur - m_lowerZBound) / zExtent)
ZBlend(b, zCur) == Minus(One, Over(Minus(zCur, ToReal(b.lowerZ)), ZExtent(b)))

\* z0 = LinearInterp (swValue, seValue, xBlend), z1 likewise, and
\* LinearInterp (z0, z1, zBlend).
Blend4(swValue, seValue, nwValue, neValue, xBlend, zBlend) ==
    LinearInterp(LinearInterp(swValue, seValue, xBlend),
                 LinearInterp(nwValue, neValue, xBlend), zBlend)

\* The seamless branch of the loop body at (xCur, zCur) with the blend
\* weights xBlend and zBlend.
SeamlessValue(b, xCur, zCur, xBlend, zBlend) ==
    Blend4(ModuleGetValue(b.module, xCur, zCur),
           ModuleGetValue(b.module, Plus(xCur, XExtent(b)), zCur),
           ModuleGetValue(b.module, xCur, Plus(zCur, ZExtent(b))),
           ModuleGetValue(b.module, Plus(xCur, XExtent(b)), Plus(zCur, ZExtent(b))),
           xBlend, zBlend)

\* FinalValue with xBlend = (xCur - lowerX) / xExtent, without the `1.0f -`.
FinalValue_BlendReversed(b, x, z) ==
    IF ~b.seamless
    THEN ModuleGetValue(b.module, XCur(b, x), ZCur(b, z))
    ELSE SeamlessValue(b, XCur(b, x), ZCur(b, z),
                       XBlend_Raw(b, XCur(b, x)), ZBlend(b, ZCur(b, z)))

\* finalValue of the loop body at column x of row z.
FinalValue(b, x, z) ==
    IF ~b.seamless
    THEN ModuleGetValue(b.module, XCur(b, x), ZCur(b, z))
    ELSE SeamlessValue(b, XCur(b, x), ZCur(b, z),
                       XBlend(b, XCur(b, x)), ZBlend(b, ZCur(b, z)))

\* The calls of planeModel.GetValue the loop body makes for one cell.
EvalsPerCell(b) == IF b.seamless THEN 4 ELSE 1

\* The column and the row of the i-th run of the loop body.
LoopX(b, i) == (i - 1) % b.destW

LoopZ(b, i) == (i - 1) \div b.destW

\* The loops of Build on the destination o: pDest = GetSlabPtr(z), then
\* *pDest++ = finalValue destWidth times.  The addresses written are kept in
\* the order of the writes.
Fill(W, b, o) ==
    [WriteCells(W, o.p, RowAddrs(o, b.destW, b.destH),
                [a \in RowAddrs(o, b.destW, b.destH) |->
                    FinalValue(b, a % o.stride, a \div o.stride)])
        EXCEPT !.evals = b.destW * b.destH * EvalsPerCell(b),
               !.writes = [i \in 1..(b.destW * b.destH) |->
                              SlabAddr(o, 0, LoopZ(b, i)) + LoopX(b, i)]]

\* The loops run when SetSize has returned.
FillAfter(W, b) == IF W.exc # "none" THEN W ELSE Fill(W, b, W.nm[b.dest])

\* Build without the test `m_destWidth <= 0`.
Build_NoDestWidthCheck(W, b, allocOk) ==
    IF b.upperX <= b.lowerX
       \/ b.upperZ <= b.lowerZ
       \/ b.destH <= 0
       \/ b.module = NoRef
       \/ b.dest = NoRef
    THEN Throw(W, "InvalidParam")
    ELSE FillAfter(SetSize(W, b.dest, b.destW, b.destH, allocOk), b)

Build(W, b, allocOk) ==
    IF b.upperX <= b.lowerX
       \/ b.upperZ <= b.lowerZ
       \/ b.destW <= 0
       \/ b.destH <= 0
       \/ b.module = NoRef
       \/ b.dest = NoRef
    THEN Throw(W, "InvalidParam")
    ELSE FillAfter(SetSize(W, b.dest, b.destW, b.destH, allocOk), b)

\* Build(fCallback) with the argument order of the callback swapped.
BuildCallback_Swapped(W, b) ==
    IF b.upperX <= b.lowerX
       \/ b.upperZ <= b.lowerZ
       \/ b.destW <= 0
       \/ b.destH <= 0
       \/ b.module = NoRef
    THEN Throw(W, "InvalidParam")
    ELSE [W EXCEPT
            !.sink = [i \in 1..(b.destW * b.destH) |->
                         <<LoopZ(b, i), LoopX(b, i),
                           FinalValue(b, LoopX(b, i), LoopZ(b, i))>>],
            !.evals = b.destW * b.destH * EvalsPerCell(b)]

\* Build(fCallback): the calls fCallback(x, z, finalValue) in the order the
\* loops make them, row z = 0 .. destH - 1 and column x = 0 .. destW - 1
\* within a row, are the sequence `sink`.
BuildCallback(W, b) ==
    IF b.upperX <= b.lowerX
       \/ b.upperZ <= b.lowerZ
       \/ b.destW <= 0
       \/ b.destH <= 0
       \/ b.module = NoRef
    THEN Throw(W, "InvalidParam")
    ELSE [W EXCEPT
            !.sink = [i \in 1..(b.destW * b.destH) |->
                         <<LoopX(b, i), LoopZ(b, i),
                           FinalValue(b, LoopX(b, i), LoopZ(b, i))>>],
            !.evals = b.destW * b.destH * EvalsPerCell(b)]

\* ------------------------------------------------------- noise modules
\* GetValue of a module is an operator from the member variables of the
\* module and a point to the outcome of the call: whether an assertion
\* stopped the program, the value returned, and the calls of GetValue made
\* on other modules, in the order they were made.

Aborted == [abort |-> TRUE, value |-> Void, calls |-> <<>>]

Returned(value, calls) == [abort |-> FALSE, value |-> value, calls |-> calls]

\* sqrt (3), the constant SQRT_3.
SQRT_3 == Sqrt(ToReal(3))

\* The 25 cells Voronoi::GetValue scans around cell (xInt, yInt), in the
\* order of the two loops: rows from yInt - 2 up, and in a row from xInt - 2
\* up.
ScanCell(xInt, yInt, i) == <<xInt - 2 + ((i - 1) % 5), yInt - 2 + ((i - 1) \div 5)>>

\* The seed point of a cell under seed m_seed: the position, and whether the
\* hashing has overflowed.
SeedPoint(cell, seed) ==
    Bind2(ValueNoise2D(cell[1], cell[2], seed),
          ValueNoise2D(cell[1], cell[2], WrapAdd(seed, 1)), LAMBDA nx, ny :
        [xPos |-> Plus(ToReal(cell[1]), nx.value),
         yPos |-> Plus(ToReal(cell[2]), ny.value),
         overflow |-> nx.overflow \/ ny.overflow \/ ~AddFits(seed, 1)])

\* xDist * xDist + yDist * yDist
SquaredDist(xDist, yDist) == Plus(Times(xDist, xDist), Times(yDist, yDist))

\* What the body of the loops computes for cell i, whose seed point is p.
ScanPoint(i, cell, p, x, y) ==
    [i |-> i, cell |-> cell, xPos |-> p.xPos, yPos |-> p.yPos,
     overflow |-> p.overflow,
     dist |-> SquaredDist(Minus(p.xPos, x), Minus(p.yPos, y))]

\* The test of the loop body with `dist <= minDist`.
ScanStep_OrEqual(s, pt) ==
    IF ~Less(s.minDist, pt.dist)
    THEN [minDist |-> pt.dist, xCandidate |-> pt.xPos, yCandidate |-> pt.yPos,
          chosen |-> pt.i]
    ELSE s

\* if (dist < minDist) { minDist = dist; xCandidate = xPos; yCandidate =
\* yPos; } on the local variables s and the seed point pt; `chosen` is the
\* run of the loop body that has set the candidate, 0 for none.
ScanStep(s, pt) ==
    IF Less(pt.dist, s.minDist)
    THEN [minDist |-> pt.dist, xCandidate |-> pt.xPos, yCandidate |-> pt.yPos,
          chosen |-> pt.i]
    ELSE s

\* The local variables when the loop body has run for the first n cells.
RECURSIVE ScanLoop(_, _)
ScanLoop(points, n) ==
    IF n = 0
    THEN [minDist |-> Float(ToReal(MaxInt)), xCandidate |-> Float(Zero),
          yCandidate |-> Float(Zero), chosen |-> 0]
    ELSE Bind(ScanLoop(points, n - 1), LAMBDA s : ScanStep(s, points[n]))

\* The local variables after the loops, with the seed points the loops have
\* looked at, in the order of the loops, and whether the hashing has
\* overflowed.
ScanResult(points, s) ==
    [minDist |-> s.minDist, xCandidate |-> s.xCandidate,
     yCandidate |-> s.yCandidate, chosen |-> s.chosen, points |-> points,
     overflow |-> \E i \in 1..25 : points[i].overflow]

\* The two loops of Voronoi::GetValue around cell (xInt, yInt): the body
\* runs for cells 1 .. 25 in turn.
Scan(xInt, yInt, x, y, seed) ==
    Bind([i \in 1..25 |->
             ScanPoint(i, ScanCell(xInt, yInt, i),
                       SeedPoint(ScanCell(xInt, yInt, i), seed), x, y)],
         LAMBDA points : ScanResult(points, ScanLoop(points, 25)))

\* int xInt = (x > 0.0? (int)x: (int)x - 1);
CellOf(x) == IF Less(Zero, x) THEN Trunc(x) ELSE Trunc(x) - 1

\* The value before the displacement is added: the distance to the
\* candidate times sqrt (3), minus 1, or 0.
DistanceValue(o, xDist, yDist) ==
    IF o.enableDistance
    THEN Minus(Times(Sqrt(SquaredDist(xDist, yDist)), SQRT_3), One)
    ELSE Float(Zero)

\* The value returned for the point (x, y) when the loops have found
\* `found` and the value noise of the displacement is `noise`.
VoronoiResult(o, x, y, found, noise) ==
    [xCandidate |-> found.xCandidate,
     yCandidate |-> found.yCandidate,
     chosen |-> found.chosen,
     points |-> found.points,
     overflow |-> found.overflow \/ noise.overflow,
     value |-> Plus(DistanceValue(o, Minus(found.xCandidate, x),
                                  Minus(found.yCandidate, y)),
                    Times(o.displacement, noise.value))]

\* Voronoi::GetValue that adds the displacement times the value noise of the
\* cell of the point (x, y) itself.
VoronoiGetValue_OwnCell(o, x0, y0) ==
    Bind2(Times(x0, o.frequency), Times(y0, o.frequency), LAMBDA x, y :
        VoronoiResult(o, x, y, Scan(CellOf(x), CellOf(y), x, y, o.seed),
                      ValueNoise2D(Floor(x), Floor(y), 0)))

\* The value returned once the loops have found `found`: the displacement is
\* multiplied by the value noise of the cell of the candidate.
VoronoiDisplaced(o, x, y, found) ==
    VoronoiResult(o, x, y, found,
                  ValueNoise2D(Floor(found.xCandidate), Floor(found.yCandidate), 0))

\* Voronoi::GetValue (x0, y0) on a module with the member variables o: the
\* value returned, the seed point the scan has selected, and whether the
\* hashing has overflowed.
VoronoiGetValue(o, x0, y0) ==
    Bind2(Times(x0, o.frequency), Times(y0, o.frequency), LAMBDA x, y :
        VoronoiDisplaced(o, x, y, Scan(CellOf(x), CellOf(y), x, y, o.seed)))

\* enum NoiseQuality
QUALITY_FAST == 0
QUALITY_STD == 1
QUALITY_BEST == 2

\* The gradient vectors a lattice point can have.
GradientVectors ==
    << <<1, 0>>, <<-1, 0>>, <<0, 1>>, <<0, -1>>,
       <<1, 1>>, <<-1, 1>>, <<1, -1>>, <<-1, -1>> >>

\* The dot product of the gradient vector v with the offset (xvPoint,
\* yvPoint), halved.
GradientDot(v, xvPoint, yvPoint) ==
    Times(Plus(Times(ToReal(v[1]), xvPoint), Times(ToReal(v[2]), yvPoint)), <<1, 2>>)

\* GradientNoise2D (fx, fy, ix, iy, seed): the gradient vector of lattice
\* point (ix, iy) is selected by the integer noise of the point; the value
\* is its dot product with the offset of (fx, fy) from the lattice point,
\* halved, which keeps it between -1 and 1.
GradientNoise2D(fx, fy, ix, iy, seed) ==
    Bind(IntValueNoise2D(ix, iy, seed), LAMBDA h :
        [overflow |-> h.overflow,
         value |-> GradientDot(GradientVectors[(h.value % 8) + 1],
                               Minus(fx, ToReal(ix)), Minus(fy, ToReal(iy)))])

\* The fraction a of the way through a lattice cell, shaped as the noise
\* quality asks for.
Shaped(a, noiseQuality) ==
    CASE noiseQuality = QUALITY_FAST -> a
      [] noiseQuality = QUALITY_STD -> SCurve3(a)
      [] noiseQuality = QUALITY_BEST -> SCurve5(a)

\* The gradient noise of the four lattice points of a cell, interpolated
\* along x and then along y.
Interpolated(n00, n10, n01, n11, xs, ys) ==
    [overflow |-> n00.overflow \/ n10.overflow \/ n01.overflow \/ n11.overflow,
     value |-> LinearInterp(LinearInterp(n00.value, n10.value, xs),
                            LinearInterp(n01.value, n11.value, xs), ys)]

\* The coherent noise of (x, y), a point of the lattice cell (x0, y0).
CoherentNoiseIn(x, y, x0, y0, seed, noiseQuality) ==
    Interpolated(GradientNoise2D(x, y, x0, y0, seed),
                 GradientNoise2D(x, y, x0 + 1, y0, seed),
                 GradientNoise2D(x, y, x0, y0 + 1, seed),
                 GradientNoise2D(x, y, x0 + 1, y0 + 1, seed),
                 Shaped(Minus(x, ToReal(x0)), noiseQuality),
                 Shaped(Minus(y, ToReal(y0)), noiseQuality))

\* GradientCoherentNoise2D (x, y, seed, noiseQuality): the gradient noise of
\* the four lattice points around (x, y), interpolated along x and then
\* along y.
GradientCoherentNoise2D(x, y, seed, noiseQuality) ==
    CoherentNoiseIn(x, y, Floor(x), Floor(y), seed, noiseQuality)

\* std::abs on a NOISE_REAL.
FAbs(a) == IF a[1] < 0 THEN Neg(a) ELSE a

\* The coherent noise of octave curOctave, where s are the local variables
\* at the start of the loop body: nx = MakeInt32Range (x), ny likewise,
\* seed = (m_seed + curOctave) & 0xffffffff.
OctaveNoise(o, s, curOctave) ==
    GradientCoherentNoise2D(MakeInt32Range(s.x), MakeInt32Range(s.y),
                            WrapAdd(o.seed, curOctave), o.noiseQuality)

\* The loop body with `value += signal`, every octave at full amplitude.
PerlinOctave_FullAmplitude(o, s, curOctave, signal) ==
    [x |-> Times(s.x, o.lacunarity), y |-> Times(s.y, o.lacunarity),
     value |-> Plus(s.value, signal.value),
     curPersistence |-> Times(s.curPersistence, o.persistence),
     overflow |-> s.overflow \/ signal.overflow \/ ~AddFits(o.seed, curOctave),
     signals |-> Append(s.signals, signal.value)]

\* The local variables after the body of the loop of Perlin::GetValue has
\* run for octave curOctave from the local variables s.
PerlinOctave(o, s, curOctave, signal) ==
    [x |-> Times(s.x, o.lacunarity), y |-> Times(s.y, o.lacunarity),
     value |-> Plus(s.value, Times(signal.value, s.curPersistence)),
     curPersistence |-> Times(s.curPersistence, o.persistence),
     overflow |-> s.overflow \/ signal.overflow \/ ~AddFits(o.seed, curOctave),
     signals |-> Append(s.signals, signal.value)]

\* The local variables of Perlin::GetValue (x0, y0) when the loop over the
\* octaves has run n times, with the signals of the octaves and whether an
\* int has overflowed.
RECURSIVE PerlinOctaves(_, _, _, _)
PerlinOctaves(o, n, x0, y0) ==
    IF n = 0
    THEN [x |-> Times(x0, o.frequency), y |-> Times(y0, o.frequency),
          value |-> Float(Zero), curPersistence |-> Float(One),
          overflow |-> FALSE, signals |-> <<>>]
    ELSE Bind(PerlinOctaves(o, n - 1, x0, y0), LAMBDA s :
            PerlinOctave(o, s, n - 1, OctaveNoise(o, s, n - 1)))

\* The number of times a loop "for (i = 0; i < count; i++)" runs.
Iterations(count) == IF count > 0 THEN count ELSE 0

\* Perlin::GetValue (x, y) on a module with the member variables o.
PerlinGetValue(o, x, y) ==
    Bind(PerlinOctaves(o, Iterations(o.octaveCount), x, y), LAMBDA s :
        [abort |-> FALSE, signals |-> s.signals, overflow |-> s.overflow,
         value |-> s.value])

\* The same for the loop of Billow::GetValue, where the signal is
\* 2 |noise| - 1.
BillowOctave(o, s, curOctave, noise, signal) ==
    [x |-> Times(s.x, o.lacunarity), y |-> Times(s.y, o.lacunarity),
     value |-> Plus(s.value, Times(signal, s.curPersistence)),
     curPersistence |-> Times(s.curPersistence, o.persistence),
     overflow |-> s.overflow \/ noise.overflow \/ ~AddFits(o.seed, curOctave),
     signals |-> Append(s.signals, signal)]

BillowSignal(o, s, curOctave, noise) ==
    BillowOctave(o, s, curOctave, noise, Minus(Times(Two, FAbs(noise.value)), One))

RECURSIVE BillowOctaves(_, _, _, _)
BillowOctaves(o, n, x0, y0) ==
    IF n = 0
    THEN [x |-> Times(x0, o.frequency), y |-> Times(y0, o.frequency),
          value |-> Float(Zero), curPersistence |-> Float(One),
          overflow |-> FALSE, signals |-> <<>>]
    ELSE Bind(BillowOctaves(o, n - 1, x0, y0), LAMBDA s :
            BillowSignal(o, s, n - 1, OctaveNoise(o, s, n - 1)))

\* Billow::GetValue (x, y) on a module with the member variables o.
BillowGetValue(o, x, y) ==
    Bind(BillowOctaves(o, Iterations(o.octaveCount), x, y), LAMBDA s :
        [abort |-> FALSE, signals |-> s.signals, overflow |-> s.overflow,
         value |-> Plus(s.value, <<1, 2>>)])

\* RotatePoint::GetValue (x, y).  nz, which the method computes and does not
\* use, is left out.
RotatePointGetValue(o, x, y) ==
    IF o.src[1] = NoRef
    THEN Aborted
    ELSE Bind2(Plus(Times(o.x1Matrix, x), Times(o.y1Matrix, y)),
               Plus(Times(o.x2Matrix, x), Times(o.y2Matrix, y)), LAMBDA nx, ny :
             Returned(ModuleGetValue(o.src[1], nx, ny), << <<o.src[1], nx, ny>> >>))

\* The call of the source module at the distorted point, when the
\* distortion modules have returned xd at (x0, y0) and yd at (x1, y1).
Distorted(o, x0, y0, x1, y1, xDistort, yDistort, overflow) ==
    [abort |-> FALSE,
     calls |-> << <<"xDistortModule", x0, y0>>, <<"yDistortModule", x1, y1>>,
                  <<o.src[1], xDistort, yDistort>> >>,
     overflow |-> overflow,
     value |-> ModuleGetValue(o.src[1], xDistort, yDistort)]

\* xDistort = x + (m_xDistortModule.GetValue (x0, y0) * m_power), and
\* yDistort likewise.
Distort(o, x, y, x0, y0, x1, y1, xd, yd) ==
    Distorted(o, x0, y0, x1, y1,
              Plus(x, Times(xd.value, o.power)), Plus(y, Times(yd.value, o.power)),
              xd.overflow \/ yd.overflow)

\* Turbulence::GetValue (x, y) past its assertion, with the points at which
\* the distortion modules are evaluated.
TurbulenceAt(o, x, y, x0, y0, x1, y1) ==
    Distort(o, x, y, x0, y0, x1, y1,
            PerlinGetValue(o.xDistortModule, x0, y0),
            PerlinGetValue(o.yDistortModule, x1, y1))

\* The same when the source module is looked at after the two distortion
\* modules have been evaluated.
TurbulenceAt_LateCheck(o, x, y, x0, y0, x1, y1) ==
    IF o.src[1] = NoRef
    THEN [abort |-> TRUE, value |-> Void,
          calls |-> << <<"xDistortModule", x0, y0>>, <<"yDistortModule", x1, y1>> >>]
    ELSE TurbulenceAt(o, x, y, x0, y0, x1, y1)

\* Turbulence::GetValue that looks at its source module only when it has
\* evaluated the two distortion modules.
TurbulenceGetValue_LateCheck(o, x, y) ==
    TurbulenceAt_LateCheck(o, x, y,
                           Plus(x, Frac(12414, 65536)), Plus(y, Frac(65124, 65536)),
                           Plus(x, Frac(26519, 65536)), Plus(y, Frac(18128, 65536)))

\* Turbulence::GetValue (x, y).  x2 and y2, which the method computes and
\* does not use, are left out.
TurbulenceGetValue(o, x, y) ==
    IF o.src[1] = NoRef
    THEN Aborted
    ELSE TurbulenceAt(o, x, y,
                      Plus(x, Frac(12414, 65536)), Plus(y, Frac(65124, 65536)),
                      Plus(x, Frac(26519, 65536)), Plus(y, Frac(18128, 65536)))

\* Blend::GetValue with an alpha that is the control value itself.
BlendGetValue_RawAlpha(o, x, y) ==
    IF o.src[1] = NoRef \/ o.src[2] = NoRef \/ o.src[3] = NoRef
    THEN Aborted
    ELSE Returned(LinearInterp(ModuleGetValue(o.src[1], x, y),
                               ModuleGetValue(o.src[2], x, y),
                               ModuleGetValue(o.src[3], x, y)),
                  << <<o.src[1], x, y>>, <<o.src[2], x, y>>, <<o.src[3], x, y>> >>)

\* Blend::GetValue.  o.src[i + 1] is m_pSourceModule[i]; the three
\* assertions come before the first evaluation, and alpha is
\* (v2 + 1.0) / 2.0.
BlendGetValue(o, x, y) ==
    IF o.src[1] = NoRef \/ o.src[2] = NoRef \/ o.src[3] = NoRef
    THEN Aborted
    ELSE Returned(LinearInterp(ModuleGetValue(o.src[1], x, y),
                               ModuleGetValue(o.src[2], x, y),
                               Over(Plus(ModuleGetValue(o.src[3], x, y), One), Two)),
                  << <<o.src[1], x, y>>, <<o.src[2], x, y>>, <<o.src[3], x, y>> >>)

\* ------------------------------------------- Turbulence configuration
\* A Turbulence object holds three Perlin modules and m_power; of a Perlin
\* module the seed, the frequency and the octave count are kept.

\* The defaults of turbulence.h.
DEFAULT_TURBULENCE_SEED == 0
DEFAULT_TURBULENCE_ROUGHNESS == 3
DEFAULT_TURBULENCE_FREQUENCY == One
DEFAULT_TURBULENCE_POWER == One

\* Perlin::SetSeed, GetSeed, SetFrequency, GetFrequency, SetOctaveCount.
PerlinSetSeed(p, seed) == [p EXCEPT !.seed = seed]

PerlinGetSeed(p) == p.seed

PerlinSetFrequency(p, frequency) == [p EXCEPT !.frequency = frequency]

PerlinGetFrequency(p) == p.frequency

PerlinSetOctaveCount(p, octaveCount) == [p EXCEPT !.octaveCount = octaveCount]

\* Turbulence::SetSeed that gives the y module the seed of the x module.
TurbulenceSetSeed_SameSeed(t, seed, build) ==
    IF build = "trap" /\ ~AddFits(seed, 2)
    THEN [abort |-> TRUE,
          t |-> [t EXCEPT !.xDistortModule = PerlinSetSeed(@, seed)]]
    ELSE [abort |-> FALSE,
          t |-> [t EXCEPT !.xDistortModule = PerlinSetSeed(@, seed),
                          !.yDistortModule = PerlinSetSeed(@, seed),
                          !.zDistortModule = PerlinSetSeed(@, WrapAdd(seed, 2))]]

\* Turbulence::SetSeed (seed) on the object t.  seed + 1 and seed + 2 are
\* int additions: where one overflows, a build that wraps around goes on
\* with the wrapped sum, and a build that traps stops the program there,
\* after the calls of SetSeed already made.
TurbulenceSetSeed(t, seed, build) ==
    IF build = "trap" /\ ~AddFits(seed, 1)
    THEN [abort |-> TRUE,
          t |-> [t EXCEPT !.xDistortModule = PerlinSetSeed(@, seed)]]
    ELSE IF build = "trap" /\ ~AddFits(seed, 2)
    THEN [abort |-> TRUE,
          t |-> [t EXCEPT !.xDistortModule = PerlinSetSeed(@, seed),
                          !.yDistortModule = PerlinSetSeed(@, WrapAdd(seed, 1))]]
    ELSE [abort |-> FALSE,
          t |-> [t EXCEPT !.xDistortModule = PerlinSetSeed(@, seed),
                          !.yDistortModule = PerlinSetSeed(@, WrapAdd(seed, 1)),
                          !.zDistortModule = PerlinSetSeed(@, WrapAdd(seed, 2))]]

\* Turbulence::GetSeed ()
TurbulenceGetSeed(t) == PerlinGetSeed(t.xDistortModule)

\* Turbulence::SetFrequency (frequency) sets the frequency of the three
\* modules.
TurbulenceSetFrequency(t, frequency) ==
    [t EXCEPT !.xDistortModule = PerlinSetFrequency(@, frequency),
              !.yDistortModule = PerlinSetFrequency(@, frequency),
              !.zDistortModule = PerlinSetFrequency(@, frequency)]

\* Turbulence::GetFrequency ()
TurbulenceGetFrequency(t) == PerlinGetFrequency(t.xDistortModule)

\* Turbulence::SetRoughness (roughness) sets the octave count of the three
\* modules.
TurbulenceSetRoughness(t, roughness) ==
    [t EXCEPT !.xDistortModule = PerlinSetOctaveCount(@, roughness),
              !.yDistortModule = PerlinSetOctaveCount(@, roughness),
              !.zDistortModule = PerlinSetOctaveCount(@, roughness)]

\* A Perlin module before any of its member variables is set.
RawPerlin == [seed |-> 0, frequency |-> One, octaveCount |-> 0]

\* Turbulence::Turbulence ()
NewTurbulence ==
    TurbulenceSetRoughness(
        TurbulenceSetFrequency(
            TurbulenceSetSeed([xDistortModule |-> RawPerlin,
                               yDistortModule |-> RawPerlin,
                               zDistortModule |-> RawPerlin,
                               power |-> DEFAULT_TURBULENCE_POWER],
                              DEFAULT_TURBULENCE_SEED, "wrap").t,
            DEFAULT_TURBULENCE_FREQUENCY),
        DEFAULT_TURBULENCE_ROUGHNESS)

\* ---------------------------------------------------------------- actions

Call(op, m, src, W, ret) ==
    [op |-> op, m |-> m, src |-> src, exc |-> W.exc, ret |-> ret, evals |-> W.evals,
     args |-> <<>>]

\* The state after a call that leaves world W behind.
Commit(W, L) ==
    /\ nm' = W.nm
    /\ heap' = W.heap
    /\ fault' = W.fault
    /\ last' = L
    /\ UNCHANGED obj

\* NoiseMap m;
DoConstruct(m) ==
    /\ ~alive[m]
    /\ alive' = [alive EXCEPT ![m] = TRUE]
    /\ Commit(InitObj(World, m), Call("NoiseMap", m, NoRef, World, Void))

\* NoiseMap m(width, height);  an exception leaves no object behind.
DoConstructSized(m, width, height, allocOk) ==
    /\ ~alive[m]
    /\ LET W == SetSize(InitObj(World, m), m, width, height, allocOk)
       IN  /\ alive' = [alive EXCEPT ![m] = (W.exc = "none")]
           /\ Commit(W, Call("NoiseMapSized", m, NoRef, W, Void))

\* NoiseMap m(source);
DoCopyConstruct(m, source, allocOk) ==
    /\ ~alive[m]
    /\ alive[source]
    /\ LET W == CopyNoiseMap(InitObj(World, m), m, source, allocOk)
       IN  /\ alive' = [alive EXCEPT ![m] = (W.exc = "none")]
           /\ Commit(W, Call("NoiseMapCopy", m, source, W, Void))

\* ~NoiseMap: delete[] m_pNoiseMap; the object is gone.
DoDestroy(m) ==
    /\ alive[m]
    /\ alive' = [alive EXCEPT ![m] = FALSE]
    /\ LET W == DeleteArr(World, nm[m].p)
       IN  Commit([W EXCEPT !.nm[m] = EmptyObj], Call("~NoiseMap", m, NoRef, W, Void))

\* m = source;
DoAssign(m, source, allocOk) ==
    /\ alive[m] /\ alive[source]
    /\ UNCHANGED alive
    /\ LET W == CopyNoiseMap(World, m, source, allocOk)
       IN  Commit(W, Call("operator=", m, source, W, Void))

DoTakeOwnership(m, source) ==
    /\ alive[m] /\ alive[source]
    /\ UNCHANGED alive
    /\ LET W == TakeOwnership(World, m, source)
       IN  Commit(W, Call("TakeOwnership", m, source, W, Void))

DoSetSize(m, width, height, allocOk) ==
    /\ alive[m]
    /\ UNCHANGED alive
    /\ LET W == SetSize(World, m, width, height, allocOk)
       IN  Commit(W, Call("SetSize", m, NoRef, W, Void))

DoReclaimMem(m, allocOk) ==
    /\ alive[m]
    /\ UNCHANGED alive
    /\ LET W == ReclaimMem(World, m, allocOk)
       IN  Commit(W, Call("ReclaimMem", m, NoRef, W, Void))

DoSetValue(m, x, y, value) ==
    /\ alive[m]
    /\ UNCHANGED alive
    /\ LET W == SetValue(World, m, x, y, value)
       IN  Commit(W, Call("SetValue", m, NoRef, W, Void))

\* GetValue reads the cell it returns; reading outside a live block is a fault.
DoGetValue(m, x, y) ==
    /\ alive[m]
    /\ UNCHANGED alive
    /\ LET W == IF InMap(nm[m], x, y)
                   /\ ~ValidAddr(World, nm[m].p, SlabAddr(nm[m], x, y))
                THEN Fault(World, "bad_read")
                ELSE World
       IN  Commit(W, Call("GetValue", m, NoRef, W, GetValue(World, m, x, y)))

DoClear(m, value) ==
    /\ alive[m]
    /\ UNCHANGED alive
    /\ LET W == Clear(World, m, value)
       IN  Commit(W, Call("Clear", m, NoRef, W, Void))

DoSetBorderValue(m, borderValue) ==
    /\ alive[m]
    /\ UNCHANGED alive
    /\ LET W == SetBorderValue(World, m, borderValue)
       IN  Commit(W, Call("SetBorderValue", m, NoRef, W, Void))

\* The configurations a client gives a builder before it calls Build():
\* SetBounds, SetDestSize, SetSourceModule, SetDestNoiseMap, EnableSeamless.
Windows ==
    { <<0, 1, 0, 1>>,      \* upper > lower on both axes
      <<0, 0, 0, 1>>,      \* degenerate in x (the constructor's 0, 0)
      <<1, 0, 0, 1>>,      \* inverted in x
      <<0, 1, 1, 1>>,      \* degenerate in z
      <<0, 1, 1, 0>> }     \* inverted in z

Builders(dests, mods) ==
    { [lowerX |-> win[1], upperX |-> win[2], lowerZ |-> win[3], upperZ |-> win[4],
       destW |-> dw, destH |-> dh, module |-> mod, dest |-> d, seamless |-> sl]
      : win \in Windows, dw \in DestWidths, dh \in DestHeights,
        mod \in mods \cup {NoRef}, d \in dests \cup {NoRef}, sl \in BOOLEAN }

\* The configurations Build accepts: a window with upper > lower on both
\* axes, a positive destination size, a source module and a destination.
TileWindows == { <<0, 1, 0, 1>>, <<-1, 1, 1, 3>> }

TileBuilders(dests, widths, heights) ==
    { [lowerX |-> win[1], upperX |-> win[2], lowerZ |-> win[3], upperZ |-> win[4],
       destW |-> dw, destH |-> dh, module |-> mod, dest |-> d, seamless |-> sl]
      : win \in TileWindows, dw \in widths, dh \in heights,
        mod \in Modules, d \in dests, sl \in BOOLEAN }

DoBuild(b, allocOk) ==
    /\ b.dest # NoRef => alive[b.dest]
    /\ UNCHANGED alive
    /\ \E W \in {Build(World, b, allocOk)} :
           Commit(W, [Call("Build", b.dest, NoRef, W, W.writes)
                         EXCEPT !.args = IF W.exc = "none" THEN b ELSE <<>>])

\* builder.Build(fCallback) with a sink that records the calls it receives.
DoBuildCallback(b) ==
    /\ b.dest # NoRef => alive[b.dest]
    /\ UNCHANGED alive
    /\ \E W \in {BuildCallback(World, b)} :
           Commit(W, [Call("BuildCallback", b.dest, NoRef, W, W.sink)
                         EXCEPT !.args = b])

\* A call of a function or of a const method that a client is about to make,
\* and the same call once it has returned.
Pending(op, args) ==
    [op |-> "pending", m |-> op, src |-> NoRef, exc |-> "none", ret |-> Void,
     evals |-> 0, args |-> args]

Done(op, args, ret) ==
    [op |-> op, m |-> NoRef, src |-> NoRef, exc |-> "none", ret |-> ret,
     evals |-> 0, args |-> args]

\* The same for a call that a trap may have cut short.
DoneOrTrapped(op, args, ret) ==
    [Done(op, args, ret) EXCEPT !.exc = IF ret.abort THEN "trap" ELSE "none"]

IsPending(op) == last.op = "pending" /\ last.m = op

\* blend.GetValue(x, y)
DoBlendGetValue ==
    /\ IsPending("Blend")
    /\ last' = Done("Blend", last.args,
                    BlendGetValue(last.args.o, last.args.x, last.args.y))
    /\ UNCHANGED <<alive, nm, heap, fault, obj>>

\* voronoi.GetValue(x, y), on a build that wraps around or on one that traps
\* when the hashing overflows.
DoVoronoiGetValue ==
    /\ IsPending("Voronoi")
    /\ \E r \in {VoronoiGetValue(last.args.o, last.args.x, last.args.y)},
          build \in Builds :
              last' = DoneOrTrapped("Voronoi", last.args,
                         IF r.overflow /\ build = "trap"
                         THEN [abort |-> TRUE, value |-> Void, overflow |-> TRUE]
                         ELSE [abort |-> FALSE, value |-> r.value,
                               xCandidate |-> r.xCandidate,
                               yCandidate |-> r.yCandidate,
                               chosen |-> r.chosen,
                               points |-> r.points,
                               overflow |-> r.overflow])
    /\ UNCHANGED <<alive, nm, heap, fault, obj>>

\* What a build makes of a call r that has not stopped at an assertion: a
\* build that traps on overflow stops the program where an int overflows.
OnTrap(build, r) ==
    IF r.overflow /\ build = "trap"
    THEN [abort |-> TRUE, value |-> Void, overflow |-> TRUE]
    ELSE r

\* perlin.GetValue(x, y)
DoPerlinGetValue ==
    /\ IsPending("Perlin")
    /\ \E r \in {PerlinGetValue(last.args.o, last.args.x, last.args.y)},
          build \in Builds :
              last' = DoneOrTrapped("Perlin", last.args, OnTrap(build, r))
    /\ UNCHANGED <<alive, nm, heap, fault, obj>>

\* billow.GetValue(x, y)
DoBillowGetValue ==
    /\ IsPending("Billow")
    /\ \E r \in {BillowGetValue(last.args.o, last.args.x, last.args.y)},
          build \in Builds :
              last' = DoneOrTrapped("Billow", last.args, OnTrap(build, r))
    /\ UNCHANGED <<alive, nm, heap, fault, obj>>

\* rotatePoint.GetValue(x, y)
DoRotatePointGetValue ==
    /\ IsPending("RotatePoint")
    /\ last' = Done("RotatePoint", last.args,
                    RotatePointGetValue(last.args.o, last.args.x, last.args.y))
    /\ UNCHANGED <<alive, nm, heap, fault, obj>>

\* turbulence.GetValue(x, y)
DoTurbulenceGetValue ==
    /\ IsPending("Turbulence")
    /\ \E r \in {TurbulenceGetValue(last.args.o, last.args.x, last.args.y)},
          build \in Builds :
              last' = IF r.abort
                      THEN Done("Turbulence", last.args, r)
                      ELSE DoneOrTrapped("Turbulence", last.args, OnTrap(build, r))
    /\ UNCHANGED <<alive, nm, heap, fault, obj>>

\* CubicInterp (n0, n1, n2, n3, a)
DoCubicInterp ==
    /\ IsPending("CubicInterp")
    /\ LET n == last.args.n
       IN  last' = Done("CubicInterp", last.args,
                        CubicInterp(n[1], n[2], n[3], n[4], last.args.a))
    /\ UNCHANGED <<alive, nm, heap, fault, obj>>

\* LinearInterp (n0, n1, a)
DoLinearInterp ==
    /\ IsPending("LinearInterp")
    /\ LET n == last.args.n
       IN  last' = Done("LinearInterp", last.args, LinearInterp(n[1], n[2], last.args.a))
    /\ UNCHANGED <<alive, nm, heap, fault, obj>>

\* SCurve3 (a)
DoSCurve3 ==
    /\ IsPending("SCurve3")
    /\ last' = Done("SCurve3", last.args, SCurve3(last.args.a))
    /\ UNCHANGED <<alive, nm, heap, fault, obj>>

\* SCurve5 (a)
DoSCurve5 ==
    /\ IsPending("SCurve5")
    /\ last' = Done("SCurve5", last.args, SCurve5(last.args.a))
    /\ UNCHANGED <<alive, nm, heap, fault, obj>>

\* IntValueNoise2D (x, y, seed)
DoIntValueNoise2D ==
    /\ IsPending("IntValueNoise2D")
    /\ \E build \in Builds :
          last' = DoneOrTrapped("IntValueNoise2D", last.args,
                                OnBuild(build, IntValueNoise2D(last.args.x, last.args.y,
                                                               last.args.seed)))
    /\ UNCHANGED <<alive, nm, heap, fault, obj>>

\* ValueNoise2D (x, y, seed)
DoValueNoise2D ==
    /\ IsPending("ValueNoise2D")
    /\ \E build \in Builds :
          last' = DoneOrTrapped("ValueNoise2D", last.args,
                                OnBuild(build, ValueNoise2D(last.args.x, last.args.y,
                                                            last.args.seed)))
    /\ UNCHANGED <<alive, nm, heap, fault, obj>>

\* MakeInt32Range (n)
DoMakeInt32Range ==
    /\ IsPending("MakeInt32Range")
    /\ last' = Done("MakeInt32Range", last.args, MakeInt32Range(last.args.n))
    /\ UNCHANGED <<alive, nm, heap, fault, obj>>

\* The program has not been stopped by a trap.
Running == last.exc # "trap"

\* turbulence.SetSeed(seed), on a build that wraps around or on one that
\* traps when seed + 1 or seed + 2 overflows.
DoTurbulenceSetSeed(seed, build) ==
    /\ Running
    /\ \E r \in {TurbulenceSetSeed(obj, seed, build)} :
          /\ obj' = r.t
          /\ last' = [Done("SetSeed", seed, Void)
                         EXCEPT !.exc = IF r.abort THEN "trap" ELSE "none"]
    /\ UNCHANGED <<alive, nm, heap, fault>>

\* turbulence.GetSeed()
DoTurbulenceGetSeed ==
    /\ Running
    /\ last' = Done("GetSeed", <<>>, TurbulenceGetSeed(obj))
    /\ UNCHANGED <<alive, nm, heap, fault, obj>>

\* turbulence.SetFrequency(frequency)
DoTurbulenceSetFrequency(frequency) ==
    /\ Running
    /\ obj' = TurbulenceSetFrequency(obj, frequency)
    /\ last' = Done("SetFrequency", frequency, Void)
    /\ UNCHANGED <<alive, nm, heap, fault>>

\* turbulence.GetFrequency()
DoTurbulenceGetFrequency ==
    /\ Running
    /\ last' = Done("GetFrequency", <<>>, TurbulenceGetFrequency(obj))
    /\ UNCHANGED <<alive, nm, heap, fault, obj>>

\* turbulence.SetRoughness(roughness)
DoTurbulenceSetRoughness(roughness) ==
    /\ Running
    /\ obj' = TurbulenceSetRoughness(obj, roughness)
    /\ last' = Done("SetRoughness", roughness, Void)
    /\ UNCHANGED <<alive, nm, heap, fault>>

\* ------------------------------------------------------------ GradientColor

\* A gradient point: a position and the color at it.
GradientPoint(pos, color) == [pos |-> pos, color |-> color]

\* The members of a GradientColor.  The array is the sequence of its
\* elements; a null pointer and an array of no elements are both <<>>.
GradientColorOf(points, count) ==
    [m_pGradientPoints |-> points, m_gradientPointCount |-> count]

\* The values an int that was never written may hold.
IndeterminateCounts == {-1, 0, 2}

\* GradientColor(): sets the pointer to NULL and leaves
\* m_gradientPointCount unwritten.
GradientColorNew(count) == GradientColorOf(<<>>, count)

\* Clear()
GradientClear(g) == GradientColorOf(<<>>, 0)

\* The loop of FindInsertionPos from index insertionPos on.  A read past
\* the elements of the array is a fault.
RECURSIVE FindInsertionLoop(_, _, _)
FindInsertionLoop(g, gradientPos, insertionPos) ==
    IF insertionPos >= g.m_gradientPointCount
    THEN [exc |-> "none", fault |-> "none", ret |-> insertionPos]
    ELSE IF insertionPos >= Len(g.m_pGradientPoints)
    THEN [exc |-> "none", fault |-> "invalid_read", ret |-> insertionPos]
    ELSE IF Less(gradientPos, g.m_pGradientPoints[insertionPos + 1].pos)
    THEN [exc |-> "none", fault |-> "none", ret |-> insertionPos]
    ELSE IF gradientPos = g.m_pGradientPoints[insertionPos + 1].pos
    THEN [exc |-> "InvalidParam", fault |-> "none", ret |-> insertionPos]
    ELSE FindInsertionLoop(g, gradientPos, insertionPos + 1)

\* FindInsertionPos(gradientPos)
FindInsertionPos(g, gradientPos) == FindInsertionLoop(g, gradientPos, 0)

\* The array InsertAtPos builds: the points before insertionPos at their
\* index, the others one further, the new point at insertionPos.
InsertedPoints(g, insertionPos, gradientPos, gradientColor) ==
    [j \in 1..(g.m_gradientPointCount + 1) |->
        IF j - 1 < insertionPos THEN g.m_pGradientPoints[j]
        ELSE IF j - 1 = insertionPos
        THEN GradientPoint(gradientPos, gradientColor)
        ELSE g.m_pGradientPoints[j - 1]]

\* InsertAtPos(insertionPos, gradientPos, gradientColor).  allocOk says
\* whether new[] finds the memory; the copy loop reads
\* m_gradientPointCount elements of the old array, and the new point is
\* written after the count has been incremented.
InsertAtPos(g, insertionPos, gradientPos, gradientColor, allocOk) ==
    IF ~allocOk
    THEN [g |-> g, exc |-> "bad_alloc", fault |-> "none"]
    ELSE IF g.m_gradientPointCount > Len(g.m_pGradientPoints)
    THEN [g |-> g, exc |-> "none", fault |-> "invalid_read"]
    ELSE IF insertionPos > g.m_gradientPointCount
    THEN [g |-> GradientColorOf(<<>>, g.m_gradientPointCount + 1),
          exc |-> "none", fault |-> "invalid_write"]
    ELSE [g |-> GradientColorOf(
                    InsertedPoints(g, insertionPos, gradientPos, gradientColor),
                    g.m_gradientPointCount + 1),
          exc |-> "none", fault |-> "none"]

\* AddGradientPoint once FindInsertionPos has come back with f.
AddAfterFind(g, f, gradientPos, gradientColor, allocOk) ==
    IF f.exc # "none" \/ f.fault # "none"
    THEN [g |-> g, exc |-> f.exc, fault |-> f.fault]
    ELSE InsertAtPos(g, f.ret, gradientPos, gradientColor, allocOk)

\* AddGradientPoint(gradientPos, gradientColor)
AddGradientPoint(g, gradientPos, gradientColor, allocOk) ==
    AddAfterFind(g, FindInsertionPos(g, gradientPos), gradientPos,
                 gradientColor, allocOk)

\* gradient.AddGradientPoint(gradientPos, gradientColor)
DoAddGradientPoint(gradientPos, gradientColor, allocOk) ==
    /\ fault = "none"
    /\ \E r \in {AddGradientPoint(obj, gradientPos, gradientColor, allocOk)} :
          /\ obj' = r.g
          /\ fault' = r.fault
          /\ last' = [Done("AddGradientPoint",
                           GradientPoint(gradientPos, gradientColor), Void)
                         EXCEPT !.exc = r.exc]
    /\ UNCHANGED <<alive, nm, heap>>

\* gradient.Clear()
DoGradientClear ==
    /\ fault = "none"
    /\ obj' = GradientClear(obj)
    /\ last' = Done("Clear", <<>>, Void)
    /\ UNCHANGED <<alive, nm, heap, fault>>

\* ---------------------------------------------------------- specifications

NoCall ==
    [op |-> "none", m |-> NoRef, src |-> NoRef, exc |-> "none", ret |-> Void,
     evals |-> 0, args |-> <<>>]

\* Object a has been default-constructed; b does not exist yet.
Init ==
    /\ alive = [m \in Maps |-> m = "a"]
    /\ nm = [m \in Maps |-> EmptyObj]
    /\ heap = [p \in StoreIds |-> FreeStore]
    /\ fault = "none"
    /\ obj = NoRef
    /\ last = NoCall

\* One buffer and the calls a client makes on it.
Next ==
    \/ \E w \in Widths, h \in Heights, ok \in BOOLEAN : DoSetSize("a", w, h, ok)
    \/ \E ok \in BOOLEAN : DoReclaimMem("a", ok)
    \/ \E x \in XCoords, y \in YCoords, v \in Values : DoSetValue("a", x, y, v)
    \/ \E x \in XCoords, y \in YCoords : DoGetValue("a", x, y)
    \/ \E v \in Values : DoClear("a", v)
    \/ \E v \in BorderValues : DoSetBorderValue("a", v)

Spec == Init /\ [][Next]_vars

\* One buffer and a builder that fills it.
NextBuild ==
    \/ \E b \in Builders({"a"}, {"Const1"}), ok \in BOOLEAN : DoBuild(b, ok)
    \/ \E w \in Widths, h \in Heights, ok \in BOOLEAN : DoSetSize("a", w, h, ok)
    \/ \E x \in {-1, 0}, y \in {0, 1}, v \in Values : DoSetValue("a", x, y, v)
    \/ \E v \in Values : DoClear("a", v)
    \/ \E v \in BorderValues : DoSetBorderValue("a", v)

SpecBuild == Init /\ [][NextBuild]_vars

\* One buffer and a builder over several source modules that fills it or
\* streams its values to a sink.
NextTile ==
    \/ \E b \in TileBuilders({"a"}, {TileW}, {TileH}), ok \in BOOLEAN : DoBuild(b, ok)
    \/ \E b \in TileBuilders({"a", NoRef}, {TileW}, {TileH}) : DoBuildCallback(b)
    \/ \E v \in BorderValues : DoSetBorderValue("a", v)

SpecTile == Init /\ [][NextTile]_vars

\* Two buffers: construction and destruction, copies and transfers.  The
\* sizes and the coordinates a client passes here are the small ones.
NextPair ==
    \/ \E m \in Maps : DoConstruct(m)
    \/ \E m \in Maps, w \in PairWidths, h \in PairHeights, ok \in BOOLEAN :
           DoConstructSized(m, w, h, ok)
    \/ \E m \in Maps, s \in Maps, ok \in BOOLEAN : DoCopyConstruct(m, s, ok)
    \/ \E m \in Maps : DoDestroy(m)
    \/ \E m \in Maps, s \in Maps, ok \in BOOLEAN : DoAssign(m, s, ok)
    \/ \E m \in Maps, s \in Maps : DoTakeOwnership(m, s)
    \/ \E m \in Maps, w \in PairWidths, h \in PairHeights, ok \in BOOLEAN :
           DoSetSize(m, w, h, ok)
    \/ \E m \in Maps, x \in PairCoords, y \in PairCoords, v \in Values :
           DoSetValue(m, x, y, v)
    \/ \E m \in Maps, v \in Values : DoClear(m, v)
    \/ \E m \in Maps, v \in BorderValues : DoSetBorderValue(m, v)

SpecPair == Init /\ [][NextPair]_vars

\* Two buffers and every call that sizes, fills, copies, trims or hands
\* over a buffer.  The heights go up to OwnMaxH, so that a buffer can
\* shrink below its capacity; the widths include one that SetSize refuses.
OwnWidths == {-1, 0, 1}
OwnHeights == 0..OwnMaxH

NextOwn ==
    \/ \E m \in Maps : DoConstruct(m)
    \/ \E m \in Maps, w \in OwnWidths, h \in OwnHeights, ok \in BOOLEAN :
           DoConstructSized(m, w, h, ok)
    \/ \E m \in Maps, s \in Maps, ok \in BOOLEAN : DoCopyConstruct(m, s, ok)
    \/ \E m \in Maps : DoDestroy(m)
    \/ \E m \in Maps, s \in Maps, ok \in BOOLEAN : DoAssign(m, s, ok)
    \/ \E m \in Maps, s \in Maps : DoTakeOwnership(m, s)
    \/ \E m \in Maps, w \in OwnWidths, h \in OwnHeights, ok \in BOOLEAN :
           DoSetSize(m, w, h, ok)
    \/ \E m \in Maps, ok \in BOOLEAN : DoReclaimMem(m, ok)
    \/ \E m \in Maps, x \in PairCoords, y \in PairCoords, v \in Values :
           DoSetValue(m, x, y, v)
    \/ \E m \in Maps, v \in Values : DoClear(m, v)

SpecOwn == Init /\ [][NextOwn]_vars

\* The points at which a client evaluates a module.
PointXs == {<<-1, 1>>, Zero, <<1, 2>>, One}
PointYs == {Zero, One}

Slots(n) == [1..n -> Sources \cup {NoRef}]

BlendCalls ==
    { Pending("Blend", [o |-> [src |-> s], x |-> x, y |-> y]) :
        s \in Slots(3), x \in PointXs, y \in PointYs }

\* The Voronoi modules a client sets up, and the points it evaluates them
\* at, as floats.
Voronois ==
    [displacement : {Float(One), Float(<<1, 2>>)}, enableDistance : BOOLEAN,
     frequency : {Float(One), Float(<<2, 1>>)}, seed : {0, 1}]

VoronoiXs == {Float(q) : q \in {<<-1, 4>>, Zero, <<1, 2>>}}
VoronoiYs == {Float(q) : q \in {Zero, <<1, 2>>}}

\* A module and a point with two seed points at the same, least distance.
TieVoronois ==
    [displacement : {Float(One)}, enableDistance : BOOLEAN,
     frequency : {Float(One)}, seed : {772}]

VoronoiCalls ==
    { Pending("Voronoi", [o |-> o, x |-> x, y |-> y]) :
        o \in Voronois, x \in VoronoiXs, y \in VoronoiYs }
    \cup { Pending("Voronoi", [o |-> o, x |-> Float(<<3, 4>>), y |-> Float(<<-23, 16>>)]) :
        o \in TieVoronois }

\* The Perlin and Billow modules a client evaluates: m_octaveCount is an
\* int and goes up to MaxOctaves here.
MaxOctaves == 2

Perlins ==
    [frequency : {Float(One), Float(Two)}, lacunarity : {Float(Two)},
     noiseQuality : {QUALITY_FAST, QUALITY_STD, QUALITY_BEST},
     octaveCount : 0..MaxOctaves, persistence : {Float(<<1, 2>>)},
     seed : {0, MaxInt}]

NoiseXs == {Float(q) : q \in {<<-3, 4>>, <<1, 4>>}}
NoiseYs == {Float(q) : q \in {Zero, <<1, 2>>}}

PerlinCalls ==
    { Pending("Perlin", [o |-> o, x |-> x, y |-> y]) :
        o \in Perlins, x \in NoiseXs, y \in NoiseYs }

BillowCalls ==
    { Pending("Billow", [o |-> o, x |-> x, y |-> y]) :
        o \in Perlins, x \in NoiseXs, y \in NoiseYs }

\* The RotatePoint modules: no rotation, and a quarter turn.
RotatePoints ==
    { [src |-> s, x1Matrix |-> t[1], y1Matrix |-> t[2],
       x2Matrix |-> t[3], y2Matrix |-> t[4]] :
        s \in Slots(1),
        t \in { <<One, Zero, Zero, One>>, <<Zero, One, <<-1, 1>>, Zero>> } }

RotatePointCalls ==
    { Pending("RotatePoint", [o |-> o, x |-> x, y |-> y]) :
        o \in RotatePoints, x \in PointXs, y \in PointYs }

\* The Turbulence modules: the distortion modules are Perlin modules of
\* seeds s and s + 1 and of the same octave count.
Turbulences ==
    { [src |-> s, power |-> p,
       xDistortModule |-> [frequency |-> Float(One), lacunarity |-> Float(Two),
                           noiseQuality |-> QUALITY_STD, octaveCount |-> n,
                           persistence |-> Float(<<1, 2>>), seed |-> 0],
       yDistortModule |-> [frequency |-> Float(One), lacunarity |-> Float(Two),
                           noiseQuality |-> QUALITY_STD, octaveCount |-> n,
                           persistence |-> Float(<<1, 2>>), seed |-> 1]] :
        s \in Slots(1), p \in {Float(One), Float(<<1, 2>>)}, n \in 1..MaxOctaves }

TurbulenceCalls ==
    { Pending("Turbulence", [o |-> o, x |-> x, y |-> y]) :
        o \in Turbulences, x \in NoiseXs, y \in NoiseYs }

\* A client that makes one call on a module it has set up.
InitModule ==
    /\ alive = [m \in Maps |-> FALSE]
    /\ nm = [m \in Maps |-> EmptyObj]
    /\ heap = [p \in StoreIds |-> FreeStore]
    /\ fault = "none"
    /\ obj = NoRef
    /\ last \in BlendCalls \cup VoronoiCalls \cup PerlinCalls \cup BillowCalls
                \cup RotatePointCalls \cup TurbulenceCalls

NextModule ==
    \/ DoBlendGetValue
    \/ DoVoronoiGetValue
    \/ DoPerlinGetValue
    \/ DoBillowGetValue
    \/ DoRotatePointGetValue
    \/ DoTurbulenceGetValue

SpecModule == InitModule /\ [][NextModule]_vars

\* The control values and the alphas a client interpolates, each as a real
\* and as a float.  2^25 - 1 and 2^25 - 3 are no floats.
Reals(S) == {ToReal(i) : i \in S}
Floats(S) == {Float(ToReal(i)) : i \in S}
Alphas == {Zero, <<1, 2>>, One}
FloatAlphas == {Float(a) : a \in Alphas}

InterpCalls ==
    { Pending("CubicInterp", [n |-> n, a |-> a]) :
        n \in [1..4 -> Reals({0, 1, 2^25})], a \in Alphas }
    \cup { Pending("CubicInterp", [n |-> n, a |-> a]) :
        n \in [1..4 -> Floats({0, 1, 2^25})], a \in FloatAlphas }
    \cup { Pending("LinearInterp", [n |-> n, a |-> a]) :
        n \in [1..2 -> Reals({0, 1, 3, 2^25})], a \in Alphas }
    \cup { Pending("LinearInterp", [n |-> n, a |-> a]) :
        n \in [1..2 -> Floats({0, 1, 3, 2^25})], a \in FloatAlphas }
    \cup { Pending(f, [a |-> a]) :
        f \in {"SCurve3", "SCurve5"}, a \in Alphas \cup FloatAlphas }

\* The lattice points and seeds a client hashes.
HashXs == {-1, 0, 1, 2^30}
HashYs == {-1, 0, 1}
HashSeeds == {0, 1}

NoiseCalls ==
    { Pending(f, [x |-> x, y |-> y, seed |-> seed]) :
        f \in {"IntValueNoise2D", "ValueNoise2D"},
        x \in HashXs, y \in HashYs, seed \in HashSeeds }

\* The numbers a client folds, as reals and as floats: the limits +-2^30,
\* numbers inside them and outside them.  The floats next to 2^30 are
\* 2^30 - 64 and 2^30 + 128.
RangeInts ==
    {0, 1, 2^30 - 64, 2^30, 2^30 + 128, MaxInt - 127}

RangeCalls ==
    { Pending("MakeInt32Range", [n |-> n]) :
        n \in Reals(RangeInts) \cup Reals({-i : i \in RangeInts})
               \cup Floats(RangeInts) \cup Floats({-i : i \in RangeInts})
               \cup Reals({2^30 - 1, 1 - 2^30, 2^30 + 1, -(2^30) - 1, MaxInt, -MaxInt})
               \cup {<<1, 2>>, <<-3, 2>>, Float(<<1, 2>>), Float(<<-3, 2>>)} }

\* A client that makes one call of a function of the noise kernel.
InitKernel ==
    /\ alive = [m \in Maps |-> FALSE]
    /\ nm = [m \in Maps |-> EmptyObj]
    /\ heap = [p \in StoreIds |-> FreeStore]
    /\ fault = "none"
    /\ obj = NoRef
    /\ last \in InterpCalls \cup NoiseCalls \cup RangeCalls

NextKernel ==
    \/ DoCubicInterp
    \/ DoLinearInterp
    \/ DoSCurve3
    \/ DoSCurve5
    \/ DoIntValueNoise2D
    \/ DoValueNoise2D
    \/ DoMakeInt32Range

SpecKernel == InitKernel /\ [][NextKernel]_vars

\* The seeds, frequencies and octave counts a client gives a Turbulence
\* module: the seeds include the two largest ints.
Seeds == {-1, 0, 1, 7, MaxInt - 2, MaxInt - 1, MaxInt}
Frequencies == {One, Two}
Roughnesses == {1, DEFAULT_TURBULENCE_ROUGHNESS}

\* A Turbulence module has been constructed.
InitSeed ==
    /\ alive = [m \in Maps |-> FALSE]
    /\ nm = [m \in Maps |-> EmptyObj]
    /\ heap = [p \in StoreIds |-> FreeStore]
    /\ fault = "none"
    /\ obj = NewTurbulence
    /\ last = Done("Turbulence", <<>>, Void)

NextSeed ==
    \/ \E seed \in Seeds, build \in Builds : DoTurbulenceSetSeed(seed, build)
    \/ DoTurbulenceGetSeed
    \/ \E frequency \in Frequencies : DoTurbulenceSetFrequency(frequency)
    \/ DoTurbulenceGetFrequency
    \/ \E roughness \in Roughnesses : DoTurbulenceSetRoughness(roughness)

SpecSeed == InitSeed /\ [][NextSeed]_vars

\* The positions and the colors (red, green, blue, alpha) a client gives a
\* gradient.
GradientPositions == {Float(q) : q \in {<<-1, 1>>, Zero, <<1, 2>>, One}}
GradientColors == {<<0, 0, 0, 255>>, <<255, 255, 255, 255>>}

\* A GradientColor has been constructed.
InitGradient ==
    /\ alive = [m \in Maps |-> FALSE]
    /\ nm = [m \in Maps |-> EmptyObj]
    /\ heap = [p \in StoreIds |-> FreeStore]
    /\ fault = "none"
    /\ obj \in {GradientColorNew(count) : count \in IndeterminateCounts}
    /\ last = Done("GradientColor", <<>>, Void)

NextGradient ==
    \/ \E pos \in GradientPositions, color \in GradientColors, ok \in BOOLEAN :
           DoAddGradientPoint(pos, color, ok)
    \/ DoGradientClear

SpecGradient == InitGradient /\ [][NextGradient]_vars

\* ------------------------------------------------------------- properties
\* A property of a method is stated for the call made in any reachable state
\* with any argument a client passes: W is the world the call leaves behind.

Allocated(o) == o.p # NULL
InRange(o, x, y) == 0 <= x /\ x < o.w /\ 0 <= y /\ y < o.h
Cells(o) == {c \in XCoords \X YCoords : InRange(o, c[1], c[2])}
\* The cell count a width x height raster needs.
Required(width, height) == CalcMinMemUsage(width, height)
LiveStores(hp) == {p \in StoreIds : hp[p].live}
\* Width, height, stride, capacity, border value and every cell are the same.
SameBuffer(W, m) == W.nm[m] = nm[m] /\ W.heap = heap

\* C1: GetValue never fails.  In every reachable state and for every (x, y),
\* GetValue returns the content of cell (x, y) of the store when the buffer
\* is allocated and (x, y) is in range, and the border value otherwise; the
\* cell it reads lies inside the live store, distinct cells are distinct
\* places of the store, and no call has raised or read outside a store.
C1_GetValueNeverFails ==
    /\ fault = "none"
    /\ last.op = "GetValue" => last.exc = "none"
    /\ \A x \in XCoords, y \in YCoords :
          LET o == nm["a"]
          IN  IF Allocated(o) /\ InRange(o, x, y)
              THEN /\ heap[o.p].live
                   /\ x + o.stride * y < Len(heap[o.p].cells)
                   /\ GetValue(World, "a", x, y) = heap[o.p].cells[x + o.stride * y + 1]
                   /\ \A c \in Cells(o) :
                          c # <<x, y>> => c[1] + o.stride * c[2] # x + o.stride * y
              ELSE GetValue(World, "a", x, y) = o.border

\* GetValue has returned a written cell of a buffer whose border value is
\* another value.
C1_Witness ==
    /\ last.op = "GetValue" /\ last.ret = One
    /\ nm["a"].border = Zero
    /\ GetValue(World, "a", 0, 0) = One
    /\ GetValue(World, "a", 1, 0) = Zero

\* C2: SetValue changes at most cell (x, y).  Out of range or on an
\* unallocated buffer it raises nothing and changes neither the object nor
\* any store; in range, GetValue(x, y) then returns the value, and the
\* object, every other cell of the store and every other store are as before.
C2_SetValueFrame ==
    \A x \in XCoords, y \in YCoords, v \in Values :
       LET W == SetValue(World, "a", x, y, v)
           o == nm["a"]
       IN  /\ W.exc = "none"
           /\ W.fault = "none"
           /\ W.nm = nm
           /\ IF Allocated(o) /\ InRange(o, x, y)
              THEN /\ GetValue(W, "a", x, y) = v
                   /\ \A c \in Cells(o) :
                          c # <<x, y>> =>
                             GetValue(W, "a", c[1], c[2]) = GetValue(World, "a", c[1], c[2])
                   /\ \A p \in StoreIds :
                          /\ W.heap[p].live = heap[p].live
                          /\ Len(W.heap[p].cells) = Len(heap[p].cells)
                          /\ \A i \in 1..Len(heap[p].cells) :
                                 (p # o.p \/ i # x + o.stride * y + 1)
                                     => W.heap[p].cells[i] = heap[p].cells[i]
              ELSE W.heap = heap

\* SetValue has written cell (0, 1) of a two-row buffer whose cell (0, 0) was
\* never written (Clear writes every cell).
C2_Witness ==
    /\ last.op = "SetValue"
    /\ nm["a"].h = 2
    /\ GetValue(World, "a", 0, 1) = One
    /\ GetValue(World, "a", 0, 0) = Indet

\* C3: a SetSize(w, h) with w > 0 and h > 0 that does not raise keeps the
\* store (same pointer, same capacity, no store released, allocated or
\* changed) when the capacity is at least the count w x h requires, and
\* otherwise ends with a fresh store of exactly the required capacity, the
\* old one released.
C3_SetSizeReuse ==
    \A w \in Widths, h \in Heights, ok \in BOOLEAN :
       LET W == SetSize(World, "a", w, h, ok)
           o == nm["a"]
           n == W.nm["a"]
       IN  (w > 0 /\ h > 0 /\ W.exc = "none") =>
              IF o.mem >= Required(w, h)
              THEN /\ n.p = o.p
                   /\ n.mem = o.mem
                   /\ W.heap = heap
              ELSE /\ n.mem = Required(w, h)
                   /\ n.p # NULL
                   /\ W.heap[n.p].live
                   /\ Len(W.heap[n.p].cells) = Required(w, h)
                   /\ \A i \in 1..Required(w, h) : W.heap[n.p].cells[i] = Indet
                   /\ LiveStores(W.heap) = (LiveStores(heap) \ {o.p}) \cup {n.p}

\* SetSize to two rows has found the capacity it needs and kept the store:
\* the cells written before the call are still there (a fresh store holds
\* no written cell).
C3_Witness ==
    /\ last.op = "SetSize" /\ last.exc = "none"
    /\ nm["a"].h = 2
    /\ nm["a"].mem = Required(nm["a"].w, 2)
    /\ GetValue(World, "a", 0, 0) = One
    /\ GetValue(World, "a", 0, 1) = One

\* C4 as amended: a SetSize that does not raise, to positive dimensions no
\* larger than the current ones, neither releases nor reallocates the store,
\* and no SetSize to positive dimensions lowers the capacity; a SetSize with
\* a zero width or height releases the store and leaves the capacity 0.
C4_ShrinkKeepsStore ==
    \A w \in Widths, h \in Heights, ok \in BOOLEAN :
       LET W == SetSize(World, "a", w, h, ok)
           o == nm["a"]
           n == W.nm["a"]
       IN  W.exc = "none" =>
              /\ (0 < w /\ w <= o.w /\ 0 < h /\ h <= o.h) =>
                    (n.p = o.p /\ n.mem = o.mem /\ W.heap = heap)
              /\ (0 < w /\ 0 < h) => n.mem >= o.mem
              /\ (w = 0 \/ h = 0) =>
                    /\ n.mem = 0
                    /\ n.p = NULL
                    /\ LiveStores(W.heap) = LiveStores(heap) \ {o.p}

\* SetSize has shrunk a two-row buffer to one row and the capacity is still
\* that of the two rows.
C4_Witness ==
    /\ last.op = "SetSize" /\ last.exc = "none"
    /\ nm["a"].w = 1 /\ nm["a"].h = 1
    /\ nm["a"].mem = Required(1, 2)
    /\ heap[nm["a"].p].live

\* C4 as claimed: a SetSize that does not raise, to dimensions no larger
\* than the current ones, keeps the store, and the capacity never decreases.
C4_Original ==
    \A w \in Widths, h \in Heights, ok \in BOOLEAN :
       LET W == SetSize(World, "a", w, h, ok)
           o == nm["a"]
           n == W.nm["a"]
       IN  W.exc = "none" =>
              /\ (0 <= w /\ w <= o.w /\ 0 <= h /\ h <= o.h) =>
                    (n.p = o.p /\ W.heap = heap)
              /\ n.mem >= o.mem

\* C5: after a ReclaimMem that does not raise, the capacity is the count the
\* current width x height requires and the store has that many cells; width,
\* height, stride, border value and GetValue of every cell are as before,
\* and a call on a buffer without spare capacity changes nothing.
C5_ReclaimMem ==
    \A ok \in BOOLEAN :
       LET W == ReclaimMem(World, "a", ok)
           o == nm["a"]
           n == W.nm["a"]
       IN  W.exc = "none" =>
              /\ W.fault = "none"
              /\ n.mem = Required(o.w, o.h)
              /\ Allocated(n) =>
                    (W.heap[n.p].live /\ Len(W.heap[n.p].cells) = n.mem)
              /\ LiveStores(W.heap) = (LiveStores(heap) \ {o.p}) \cup ({n.p} \ {NULL})
              /\ n.w = o.w /\ n.h = o.h /\ n.stride = o.stride /\ n.border = o.border
              /\ \A x \in XCoords, y \in YCoords :
                    GetValue(W, "a", x, y) = GetValue(World, "a", x, y)
              /\ o.mem = Required(o.w, o.h) => SameBuffer(W, "a")

\* ReclaimMem has moved a buffer with a written cell to a smaller store (the
\* second block of the heap: SetSize alone always allocates the first).
C5_Witness ==
    /\ last.op = "ReclaimMem" /\ last.exc = "none"
    /\ nm["a"].p = 2
    /\ nm["a"].mem = Required(nm["a"].w, nm["a"].h)
    /\ GetValue(World, "a", 0, 0) = One

\* C6: after TakeOwnership(source) on two distinct buffers, the receiver
\* holds the very store the source held, untouched, with the source's width,
\* height, stride and capacity, so GetValue on it returns the source's
\* former cells; the source is empty; the receiver's previous store is
\* released and no other store is.
C6_TakeOwnership ==
    \A m \in Maps, s \in Maps :
       (alive[m] /\ alive[s] /\ m # s) =>
          LET W == TakeOwnership(World, m, s)
              o == nm[s]
              d == W.nm[m]
          IN  /\ W.exc = "none" /\ W.fault = "none"
              /\ d.p = o.p /\ d.w = o.w /\ d.h = o.h
              /\ d.stride = o.stride /\ d.mem = o.mem
              /\ Allocated(o) => (W.heap[o.p].live /\ W.heap[o.p] = heap[o.p])
              /\ \A c \in Cells(o) :
                    GetValue(W, m, c[1], c[2]) = GetValue(World, s, c[1], c[2])
              /\ W.nm[s].p = NULL /\ W.nm[s].w = 0 /\ W.nm[s].h = 0
              /\ W.nm[s].stride = 0 /\ W.nm[s].mem = 0
              /\ Allocated(nm[m]) => ~W.heap[nm[m].p].live
              /\ LiveStores(W.heap) = LiveStores(heap) \ {nm[m].p}

\* b has taken the store of a, with a written cell, and a is empty.
C6_Witness ==
    /\ last.op = "TakeOwnership" /\ last.m = "b" /\ last.src = "a"
    /\ alive["a"] /\ alive["b"]
    /\ nm["a"].p = NULL /\ nm["a"].w = 0
    /\ nm["b"].p # NULL
    /\ GetValue(World, "b", 0, 0) = One

\* The world after `m = source` (m constructed) or `NoiseMap m(source)`.
CopyInto(m, s, ok) ==
    IF alive[m] THEN CopyNoiseMap(World, m, s, ok)
    ELSE CopyNoiseMap(InitObj(World, m), m, s, ok)

\* C7: copy construction and assignment are deep copies.  After a copy
\* between two buffers that does not raise, the destination has the
\* source's width, height, border value and cells, the source and its store
\* are as before, and the two own different live stores; and in every
\* reachable state a SetValue, Clear or SetSize on one buffer leaves the
\* other object, its store and what GetValue returns on it unchanged.
C7_DeepCopy ==
    /\ \A m \in Maps, s \in Maps, ok \in BOOLEAN :
          (alive[s] /\ m # s) =>
             LET W == CopyInto(m, s, ok)
                 o == nm[s]
                 d == W.nm[m]
             IN  W.exc = "none" =>
                    /\ W.fault = "none"
                    /\ d.w = o.w /\ d.h = o.h /\ d.border = o.border
                    /\ \A c \in Cells(o) :
                          GetValue(W, m, c[1], c[2]) = GetValue(World, s, c[1], c[2])
                    /\ W.nm[s] = nm[s]
                    /\ Allocated(o) => W.heap[o.p] = heap[o.p]
                    /\ Allocated(o) =>
                          /\ Allocated(d) /\ d.p # o.p
                          /\ W.heap[d.p].live /\ W.heap[o.p].live
    /\ \A m \in Maps, s \in Maps :
          (alive[m] /\ alive[s] /\ m # s) =>
             \A W \in { SetValue(World, m, x, y, v) :
                           x \in PairCoords, y \in PairCoords, v \in Values }
                      \cup { Clear(World, m, v) : v \in Values }
                      \cup { SetSize(World, m, w, h, ok) :
                               w \in PairWidths, h \in PairHeights, ok \in BOOLEAN } :
                /\ W.nm[s] = nm[s]
                /\ Allocated(nm[s]) => W.heap[nm[s].p] = heap[nm[s].p]
                /\ \A cx \in XCoords, cy \in YCoords :
                       GetValue(W, s, cx, cy) = GetValue(World, s, cx, cy)

\* b = a has copied a buffer with a written cell and border value 1, and the
\* two buffers own different stores.
C7_Witness ==
    /\ last.op = "operator=" /\ last.exc = "none"
    /\ last.m = "b" /\ last.src = "a"
    /\ nm["a"].p # NULL /\ nm["b"].p # NULL /\ nm["a"].p # nm["b"].p
    /\ GetValue(World, "a", 0, 0) = One /\ GetValue(World, "b", 0, 0) = One
    /\ nm["a"].border = One /\ nm["b"].border = One

\* The configurations Build must refuse, in the words of the claim.
Refused(b) ==
    \/ b.upperX <= b.lowerX
    \/ b.upperZ <= b.lowerZ
    \/ b.destW <= 0
    \/ b.destH <= 0
    \/ b.module = NoRef
    \/ b.dest = NoRef

\* C8: Build raises InvalidParam for every configuration with upperX <=
\* lowerX, upperZ <= lowerZ, destWidth <= 0, destHeight <= 0, no source
\* module or no destination, before any other effect: the destination
\* buffer and the heap are unchanged and the module is not evaluated.
C8_BuildFailsFast ==
    \A b \in Builders({"a"}, {"Const1"}), ok \in BOOLEAN :
       Refused(b) =>
          LET W == Build(World, b, ok)
          IN  /\ W.exc = "InvalidParam"
              /\ W.fault = "none"
              /\ W.evals = 0
              /\ SameBuffer(W, "a")

\* Build without a destination has raised InvalidParam, and buffer a still
\* holds the cells an earlier Build wrote and its border value 1.
C8_Witness ==
    /\ last.op = "Build" /\ last.exc = "InvalidParam" /\ last.m = NoRef
    /\ last.evals = 0
    /\ nm["a"].p # NULL /\ nm["a"].border = One
    /\ GetValue(World, "a", 0, 0) = One

\* C9: SetSize with a negative or too large width or height raises
\* InvalidParam and leaves the buffer as it was, and so does Build with an
\* otherwise valid configuration whose destination size is above the maximum.
C9_InvalidSize ==
    /\ \A w \in Widths, h \in Heights, ok \in BOOLEAN :
          (w < 0 \/ h < 0 \/ w > RASTER_MAX_WIDTH \/ h > RASTER_MAX_HEIGHT) =>
             LET W == SetSize(World, "a", w, h, ok)
             IN  W.exc = "InvalidParam" /\ W.fault = "none" /\ SameBuffer(W, "a")
    /\ \A b \in Builders({"a"}, {"Const1"}), ok \in BOOLEAN :
          (~Refused(b) /\ (b.destW > RASTER_MAX_WIDTH \/ b.destH > RASTER_MAX_HEIGHT)) =>
             LET W == Build(World, b, ok)
             IN  W.exc = "InvalidParam" /\ W.evals = 0 /\ SameBuffer(W, "a")

\* SetSize has raised InvalidParam on a buffer that holds written cells, a
\* spare row of capacity and border value 1.
C9_Witness ==
    /\ last.op = "SetSize" /\ last.exc = "InvalidParam"
    /\ nm["a"].p # NULL /\ nm["a"].border = One
    /\ nm["a"].mem > Required(nm["a"].w, nm["a"].h)
    /\ GetValue(World, "a", 0, 0) = One

\* C10 as claimed: a SetSize or ReclaimMem that raises OutOfMemory leaves
\* width, height, stride, capacity, cells and border value as they were.
C10_OutOfMemoryNoMutation ==
    \A w \in Widths, h \in Heights, ok \in BOOLEAN :
       /\ LET W == SetSize(World, "a", w, h, ok)
          IN  W.exc = "OutOfMemory" => SameBuffer(W, "a")
       /\ LET W == ReclaimMem(World, "a", ok)
          IN  W.exc = "OutOfMemory" => SameBuffer(W, "a")

\* C11: seamless tiling.  For every source module and every window with
\* upper > lower, a seamless Build has written at column 0 of every row the
\* value the loop body computes at the implicit column destWidth, where xCur
\* is upperX, and at row 0 of every column the value it computes at the
\* implicit row destHeight, where zCur is upperZ.
C11_Seamless ==
    (last.op = "Build" /\ last.exc = "none" /\ last.args.seamless) =>
       LET b == last.args
       IN  /\ XCur(b, b.destW) = ToReal(b.upperX)
           /\ ZCur(b, b.destH) = ToReal(b.upperZ)
           /\ \A z \in 0..(b.destH - 1) :
                 GetValue(World, b.dest, 0, z) = FinalValue(b, b.destW, z)
           /\ \A x \in 0..(b.destW - 1) :
                 GetValue(World, b.dest, x, 0) = FinalValue(b, x, b.destH)

\* A seamless Build over the module x * x * (z * z + 1) has filled buffer
\* a: the values differ along the row and along the column, cell (0, 0) is
\* the value of the implicit column, and it is not the module's value at
\* (lowerX, lowerZ).
C11_Witness ==
    /\ last.op = "Build" /\ last.exc = "none"
    /\ last.args.seamless /\ last.args.module = "Bump"
    /\ GetValue(World, "a", 0, 0) # GetValue(World, "a", 1, 0)
    /\ GetValue(World, "a", 0, 0) # GetValue(World, "a", 0, 1)
    /\ GetValue(World, "a", 0, 0) = FinalValue(last.args, last.args.destW, 0)
    /\ GetValue(World, "a", 0, 0) # FinalValue([last.args EXCEPT !.seamless = FALSE], 0, 0)

\* The index of the call the sink receives for cell (col, row).
SinkIndex(sink, col, row) ==
    {i \in 1..Len(sink) : sink[i][1] = col /\ sink[i][2] = row}

\* C12: Build(callback) has called the sink exactly once for every cell
\* (col, row) of the destination size, rows ascending and columns ascending
\* within a row, with the value Build() writes to that cell for the same
\* configuration; and in every reachable state it raises nothing and leaves
\* every buffer and the heap as they were, with or without a destination.
C12_Streaming ==
    /\ last.op = "BuildCallback" =>
          LET b == last.args
              sink == last.ret
              W == Build(World, [b EXCEPT !.dest = "a"], TRUE)
          IN  /\ last.exc = "none"
              /\ Len(sink) = b.destW * b.destH
              /\ \A col \in 0..(b.destW - 1), row \in 0..(b.destH - 1) :
                    /\ Cardinality(SinkIndex(sink, col, row)) = 1
                    /\ \A i \in SinkIndex(sink, col, row) :
                          sink[i][3] = GetValue(W, "a", col, row)
              /\ \A i \in 1..Len(sink), j \in 1..Len(sink) :
                    i < j =>
                       \/ sink[i][2] < sink[j][2]
                       \/ sink[i][2] = sink[j][2] /\ sink[i][1] < sink[j][1]
    /\ \A b \in TileBuilders({"a", NoRef}, {TileW}, {TileH}) :
          LET S == BuildCallback(World, b)
          IN  /\ S.exc = "none" /\ S.fault = fault
              /\ S.nm = nm /\ S.heap = heap

\* A builder without a destination has streamed the module Bump to
\* the sink, which received different values in its first and last call,
\* while buffer a still holds the cells of an earlier Build.
C12_Witness ==
    /\ last.op = "BuildCallback" /\ last.exc = "none" /\ last.m = NoRef
    /\ last.args.module = "Bump"
    /\ Len(last.ret) = TileW * TileH
    /\ last.ret[1][3] # last.ret[Len(last.ret)][3]
    /\ last.ret[Len(last.ret)] =
          <<TileW - 1, TileH - 1, FinalValue(last.args, TileW - 1, TileH - 1)>>
    /\ nm["a"].p # NULL

\* C13: Blend::GetValue(x, y) is the linear interpolation between source 0
\* and source 1 at the alpha (source 2 + 1) / 2, every source evaluated once,
\* at (x, y) itself: the result is source 0 where source 2 is -1, source 1
\* where source 2 is 1 and the midpoint of the two where source 2 is 0.
C13_Blend ==
    (last.op = "Blend" /\ ~last.ret.abort) =>
        LET o == last.args.o
            x == last.args.x
            y == last.args.y
            s0 == ModuleGetValue(o.src[1], x, y)
            s1 == ModuleGetValue(o.src[2], x, y)
            s2 == ModuleGetValue(o.src[3], x, y)
        IN  /\ last.ret.value = Plus(s0, Times(Over(Plus(s2, One), Two), Minus(s1, s0)))
            /\ last.ret.calls = [i \in 1..3 |-> <<o.src[i], x, y>>]
            /\ s2 = Neg(One) => last.ret.value = s0
            /\ s2 = One => last.ret.value = s1
            /\ s2 = Zero => last.ret.value = Over(Plus(s0, s1), Two)

\* A blend of two sources that differ at the point, controlled by a third
\* that is 0 there: the result is the midpoint and is neither source.
C13_Witness ==
    /\ last.op = "Blend"
    /\ ~last.ret.abort
    /\ last.args.o.src = <<"Bump", "Const1", "Ramp">>
    /\ ModuleGetValue("Ramp", last.args.x, last.args.y) = Zero
    /\ last.ret.value = <<1, 2>>
    /\ Len(last.ret.calls) = 3

\* The value a of the format of v: a real for a real, a float for a float.
Like(v, a) == IF IsFloat(v) THEN Float(a) ELSE a

C15_NoSignedOverflow ==
    last.op = "IntValueNoise2D" =>
        /\ ~last.ret.overflow
        /\ ~last.ret.abort
        /\ \A build \in Builds :
              LET r == OnBuild(build, IntValueNoise2D(last.args.x, last.args.y,
                                                     last.args.seed))
              IN  /\ r.abort = last.ret.abort
                  /\ (~r.abort /\ ~last.ret.abort) => r.value = last.ret.value

\* C16: a value returned by IntValueNoise2D is in 0 .. 2147483647 and a value
\* returned by ValueNoise2D is in [-1, 1] and is 1 - h / 2^30 for the integer
\* noise h of the same arguments, up to the rounding of h and of the
\* difference (2^-23 at most); both depend on the arguments only.
C16_NoiseRange ==
    LET x == last.args.x
        y == last.args.y
        seed == last.args.seed
    IN  /\ (last.op = "IntValueNoise2D" /\ ~last.ret.abort) =>
            /\ last.ret.value \in 0..MaxInt
            /\ last.ret.value = IntValueNoise2D(x, y, seed).value
        /\ (last.op = "ValueNoise2D" /\ ~last.ret.abort) =>
            LET v == ToPair(last.ret.value)
                h == IntValueNoise2D(x, y, seed).value
                err == Minus(v, Minus(One, Frac(h, 2^30)))
            IN  /\ ~Less(v, Neg(One))
                /\ ~Less(One, v)
                /\ Abs(err[1]) * 2^23 <= err[2]
                /\ last.ret.value = ValueNoise2D(x, y, seed).value

\* The integer noise of (1, 0) with seed 0 has been returned: 889344745, and
\* the value noise of the same point is 1 - 889344745 / 2^30 rounded to a
\* float, a number between 0 and 1.
C16_Witness ==
    /\ last.op = "IntValueNoise2D"
    /\ last.args = [x |-> 1, y |-> 0, seed |-> 0]
    /\ ~last.ret.abort
    /\ last.ret.value = 889344745
    /\ Less(Zero, ValueNoise2D(1, 0, 0).value)
    /\ Less(ValueNoise2D(1, 0, 0).value, One)

C18_CellFlatness ==
    (last.op = "Voronoi" /\ ~last.ret.abort /\ ~last.args.o.enableDistance) =>
        LET o == last.args.o
            cell == ValueNoise2D(Floor(last.ret.xCandidate),
                                 Floor(last.ret.yCandidate), 0)
        IN  /\ last.ret.value = Times(o.displacement, cell.value)
            /\ \A x \in VoronoiXs, y \in VoronoiYs :
                  LET r == VoronoiGetValue(o, x, y)
                  IN  (r.xCandidate = last.ret.xCandidate
                       /\ r.yCandidate = last.ret.yCandidate)
                          => r.value = last.ret.value

\* The module of seed 0, frequency 1 and displacement 1 has returned
\* 1486623 / 2^24 at (0, 0), where the seed point selected lies in cell
\* (-1, 0); at (-1/4, 1/2) it selects the same seed point and at (1/2, 0)
\* another one, of another value.
C18_Witness ==
    /\ last.op = "Voronoi" /\ ~last.ret.abort
    /\ last.args.o = [displacement |-> Float(One), enableDistance |-> FALSE,
                      frequency |-> Float(One), seed |-> 0]
    /\ last.args.x = Float(Zero) /\ last.args.y = Float(Zero)
    /\ last.ret.value = <<1486623, -24, "float">>
    /\ Floor(last.ret.xCandidate) = -1 /\ Floor(last.ret.yCandidate) = 0
    /\ LET near == VoronoiGetValue(last.args.o, Float(<<-1, 4>>), Float(<<1, 2>>))
           far == VoronoiGetValue(last.args.o, Float(<<1, 2>>), Float(Zero))
       IN  /\ near.xCandidate = last.ret.xCandidate
           /\ near.yCandidate = last.ret.yCandidate
           /\ near.value = last.ret.value
           /\ far.xCandidate # last.ret.xCandidate
           /\ far.value # last.ret.value

\* C19: Blend, RotatePoint and Turbulence stop at the assertion at the entry
\* of GetValue when one of their source modules is not set: the call returns
\* no value and has evaluated no module, a source module or a distortion
\* module of its own.
C19_UnsetSlotFailsFast ==
    (/\ last.op \in {"Blend", "RotatePoint", "Turbulence"}
     /\ \E i \in DOMAIN last.args.o.src : last.args.o.src[i] = NoRef)
        => (last.ret = Aborted /\ last.exc = "none")

\* A Turbulence module without a source module has stopped at (1/4, 1/2);
\* with the source module Ramp connected the same call evaluates the two
\* distortion modules and then Ramp.
C19_Witness ==
    /\ last.op = "Turbulence"
    /\ last.args.o.src = <<NoRef>>
    /\ last.args.x = Float(<<1, 4>>) /\ last.args.y = Float(<<1, 2>>)
    /\ last.ret.abort /\ last.ret.calls = <<>>
    /\ LET r == TurbulenceGetValue([last.args.o EXCEPT !.src = <<"Ramp">>],
                                   last.args.x, last.args.y)
       IN  ~r.abort /\ Len(r.calls) = 3 /\ r.calls[3][1] = "Ramp"

IntSucc(s, k) == IF s <= MaxInt - k THEN s + k ELSE ((s - MaxInt) + (k - 2)) - MaxInt

SeedsInStep(t, s) ==
    /\ t.xDistortModule.seed = s
    /\ t.yDistortModule.seed = IntSucc(s, 1)
    /\ t.zDistortModule.seed = IntSucc(s, 2)
    /\ t.xDistortModule.seed # t.yDistortModule.seed
    /\ t.yDistortModule.seed # t.zDistortModule.seed
    /\ t.xDistortModule.seed # t.zDistortModule.seed
    /\ TurbulenceGetSeed(t) = s

C21_SeedsInStep ==
    Running =>
        /\ SeedsInStep(obj, TurbulenceGetSeed(obj))
        /\ last.op = "Turbulence" => SeedsInStep(obj, DEFAULT_TURBULENCE_SEED)
        /\ last.op = "SetSeed" => SeedsInStep(obj, last.args)
        /\ last.op = "GetSeed" => SeedsInStep(obj, last.ret)
        /\ \A s \in Seeds, build \in Builds :
              ~TurbulenceSetSeed(obj, s, build).abort =>
                  SeedsInStep(TurbulenceSetSeed(obj, s, build).t, s)

\* SetSeed(2147483647) has returned after a SetSeed with another seed and a
\* change of the frequency.
C21_Witness ==
    /\ last.op = "SetSeed" /\ last.exc = "none" /\ last.args = MaxInt
    /\ obj.xDistortModule.frequency = Two
    /\ obj.zDistortModule.seed = -MaxInt

\* The point of the plane the claim gives cell (col, row).
CellX(b, col) == Plus(ToReal(b.lowerX), Frac(col * (b.upperX - b.lowerX), b.destW))
CellZ(b, row) == Plus(ToReal(b.lowerZ), Frac(row * (b.upperZ - b.lowerZ), b.destH))

\* The addresses of the cells of a width x height raster of buffer o.
CellAddrs(o, width, height) ==
    {SlabAddr(o, col, row) : col \in 0..(width - 1), row \in 0..(height - 1)}

\* C22: a non-seamless Build() that has returned has left a destination of
\* destWidth x destHeight whose cell (col, row) holds the value of the source
\* module at (lowerX + col * (upperX - lowerX) / destWidth, lowerZ + row *
\* (upperZ - lowerZ) / destHeight); it has evaluated the module once per
\* cell and has made destWidth * destHeight writes, one to every cell.  And
\* from every reachable state such a Build changes nothing but these cells:
\* every other place of the store, every other store and the member
\* variables are what SetSize has left.
C22_NonSeamlessBuild ==
    /\ (last.op = "Build" /\ last.exc = "none" /\ ~last.args.seamless) =>
          LET b == last.args
              o == nm[b.dest]
              n == b.destW * b.destH
          IN  /\ fault = "none"
              /\ o.w = b.destW /\ o.h = b.destH
              /\ \A col \in 0..(b.destW - 1), row \in 0..(b.destH - 1) :
                    /\ ValidAddr(World, o.p, SlabAddr(o, col, row))
                    /\ ReadCell(World, o.p, SlabAddr(o, col, row))
                          = ModuleGetValue(b.module, CellX(b, col), CellZ(b, row))
              /\ last.evals = n
              /\ Len(last.ret) = n
              /\ \A i, j \in 1..n : i # j => last.ret[i] # last.ret[j]
              /\ {last.ret[i] : i \in 1..n} = CellAddrs(o, b.destW, b.destH)
    /\ \A b \in TileBuilders({"a"}, {TileW}, {TileH}), ok \in BOOLEAN :
          LET W0 == SetSize(World, b.dest, b.destW, b.destH, ok)
              W == Build(World, b, ok)
          IN  (W.exc = "none" /\ ~b.seamless) =>
                 /\ W.fault = W0.fault
                 /\ W.nm = W0.nm
                 /\ \A p \in StoreIds :
                       /\ W.heap[p].live = W0.heap[p].live
                       /\ Len(W.heap[p].cells) = Len(W0.heap[p].cells)
                       /\ \A i \in 1..Len(W.heap[p].cells) :
                             (p = W.nm[b.dest].p
                                /\ (i - 1) \in CellAddrs(W.nm[b.dest], b.destW, b.destH))
                             \/ W.heap[p].cells[i] = W0.heap[p].cells[i]

\* A non-seamless Build over the module x * x * (z * z + 1) and the window
\* [-1, 1] x [1, 3] has returned: the rows of the store are longer than the
\* destination is wide, the place after the last cell of row 0 has not been
\* written, and the cells differ along the row and along the column.
C22_Witness ==
    /\ last.op = "Build" /\ last.exc = "none"
    /\ ~last.args.seamless /\ last.args.module = "Bump" /\ last.args.lowerX = -1
    /\ nm["a"].stride > nm["a"].w
    /\ ReadCell(World, nm["a"].p, SlabAddr(nm["a"], nm["a"].w, 0)) = Indet
    /\ GetValue(World, "a", 0, 0) # GetValue(World, "a", 1, 0)
    /\ GetValue(World, "a", 1, 0) # GetValue(World, "a", 1, 1)
    /\ GetValue(World, "a", 2, 1) = ModuleGetValue("Bump", <<1, 3>>, Two)

\* The normalised distance of the point of cell (col, row) from the lower
\* bound of the window, along x and along z.
XWeight(b, col) == Over(Minus(CellX(b, col), ToReal(b.lowerX)), XExtent(b))
ZWeight(b, row) == Over(Minus(CellZ(b, row), ToReal(b.lowerZ)), ZExtent(b))

\* The blend of the four samples of cell (col, row) under the weights wx
\* along x and wz along z, as LinearInterp takes them.
Bilinear(b, col, row, wx, wz) ==
    LinearInterp(
        LinearInterp(ModuleGetValue(b.module, CellX(b, col), CellZ(b, row)),
                     ModuleGetValue(b.module, Plus(CellX(b, col), XExtent(b)),
                                    CellZ(b, row)), wx),
        LinearInterp(ModuleGetValue(b.module, CellX(b, col),
                                    Plus(CellZ(b, row), ZExtent(b))),
                     ModuleGetValue(b.module, Plus(CellX(b, col), XExtent(b)),
                                    Plus(CellZ(b, row), ZExtent(b))), wx),
        wz)

\* The value a seamless build has produced for cell (col, row): the cell of
\* the destination of Build(), the value passed to the sink of
\* Build(callback).
Produced(col, row) ==
    IF last.op = "Build" THEN GetValue(World, last.args.dest, col, row)
    ELSE last.ret[row * last.args.destW + col + 1][3]

SeamlessDone ==
    /\ last.op \in {"Build", "BuildCallback"}
    /\ last.exc = "none"
    /\ last.args.seamless

\* C23 as stated: the weights passed to LinearInterp are the normalised
\* distances (x - lowerX) / xExtent and (z - lowerZ) / zExtent.
C23_Original ==
    SeamlessDone =>
       \A col \in 0..(last.args.destW - 1), row \in 0..(last.args.destH - 1) :
          Produced(col, row)
             = Bilinear(last.args, col, row, XWeight(last.args, col),
                        ZWeight(last.args, row))

\* C23: in seamless mode both forms of Build blend the four samples
\* root(x, z), root(x + xExtent, z), root(x, z + zExtent) and
\* root(x + xExtent, z + zExtent) bilinearly, and the weights passed to
\* LinearInterp are one minus the normalised distance from the lower bound:
\* 1 - (x - lowerX) / xExtent along x and 1 - (z - lowerZ) / zExtent along z.
C23_SeamlessWeights ==
    SeamlessDone =>
       \A col \in 0..(last.args.destW - 1), row \in 0..(last.args.destH - 1) :
          Produced(col, row)
             = Bilinear(last.args, col, row,
                        Minus(One, XWeight(last.args, col)),
                        Minus(One, ZWeight(last.args, row)))

\* A seamless Build over the module x * x * (z * z + 1) has returned, and
\* cell (1, 1) is not the blend under the normalised distances themselves.
C23_Witness ==
    /\ SeamlessDone /\ last.op = "Build" /\ last.args.module = "Bump"
    /\ XWeight(last.args, 1) = <<1, 3>>
    /\ Produced(1, 1) # Bilinear(last.args, 1, 1, XWeight(last.args, 1),
                                  ZWeight(last.args, 1))

\* a^k for k >= 0, by repeated multiplication.
RECURSIVE Power(_, _)
Power(a, k) == IF k = 0 THEN Float(One) ELSE Times(Power(a, k - 1), a)

\* The term of octave k of the sum the claim gives for Perlin.Evaluate(x, y).
PerlinTerm(o, x, y, k) ==
    Times(GradientCoherentNoise2D(
              MakeInt32Range(Times(Times(x, o.frequency), Power(o.lacunarity, k))),
              MakeInt32Range(Times(Times(y, o.frequency), Power(o.lacunarity, k))),
              IntSucc(o.seed, k), o.noiseQuality).value,
          Power(o.persistence, k))

\* The sum of the terms of octaves 0 .. n - 1, added in this order to 0.
RECURSIVE PerlinSum(_, _, _, _)
PerlinSum(o, x, y, n) ==
    IF n = 0 THEN Float(Zero)
    ELSE Plus(PerlinSum(o, x, y, n - 1), PerlinTerm(o, x, y, n - 1))

\* C24: a call of Perlin::GetValue (x, y) that has returned has run its
\* loop octaveCount times and has returned the sum over octave = 0 ..
\* octaveCount - 1 of persistence^octave * GradientCoherentNoise2D
\* (MakeInt32Range (x * frequency * lacunarity^octave), MakeInt32Range
\* (y * frequency * lacunarity^octave), seed + octave, quality), where
\* seed + octave is the sum of int; the signal of octave k is the coherent
\* noise of that term.
C24_PerlinSum ==
    (last.op = "Perlin" /\ last.exc = "none") =>
       LET o == last.args.o
       IN  /\ Len(last.ret.signals) = o.octaveCount
           /\ last.ret.value = PerlinSum(o, last.args.x, last.args.y, o.octaveCount)
           /\ \A k \in 0..(o.octaveCount - 1) :
                 Times(last.ret.signals[k + 1], Power(o.persistence, k))
                    = PerlinTerm(o, last.args.x, last.args.y, k)

\* A call with two octaves and the largest seed has returned:
\* both signals are different from 0 and from each other, and the value is
\* the first signal plus half the second one.
C24_Witness ==
    /\ last.op = "Perlin" /\ last.exc = "none"
    /\ last.args.o.octaveCount = 2 /\ last.args.o.seed = MaxInt
    /\ last.ret.signals[1] # Float(Zero) /\ last.ret.signals[2] # Float(Zero)
    /\ last.ret.signals[1] # last.ret.signals[2]
    /\ last.ret.value = Plus(last.ret.signals[1],
                             Times(last.ret.signals[2], Float(<<1, 2>>)))

\* The scaled input of a call of Voronoi::GetValue.
ScaledX == Times(last.args.x, last.args.o.frequency)
ScaledY == Times(last.args.y, last.args.o.frequency)

VoronoiDone == last.op = "Voronoi" /\ last.exc = "none"

\* The seed point of cell c under the seed of the call, and its squared
\* distance from the scaled input.
SeedDist(c) ==
    SquaredDist(Minus(SeedPoint(c, last.args.o.seed).xPos, ScaledX),
                Minus(SeedPoint(c, last.args.o.seed).yPos, ScaledY))

\* The 5 x 5 cells around (floor (x), floor (y)).
FloorCells ==
    { <<cx, cy>> : cx \in (Floor(ScaledX) - 2)..(Floor(ScaledX) + 2),
                   cy \in (Floor(ScaledY) - 2)..(Floor(ScaledY) + 2) }

\* C25: for every scaled input, positive, negative or integral, a call of
\* Voronoi::GetValue that has returned has looked at exactly the 25 cells
\* (cx, cy) with |cx - floor (x)| <= 2 and |cy - floor (y)| <= 2, and the
\* candidate it has selected is a seed point of these cells at the least
\* squared distance.
C25_FloorNeighbourhood ==
    VoronoiDone =>
       /\ {last.ret.points[i].cell : i \in 1..25} = FloorCells
       /\ \E c \in FloorCells :
             /\ SeedPoint(c, last.args.o.seed).xPos = last.ret.xCandidate
             /\ SeedPoint(c, last.args.o.seed).yPos = last.ret.yCandidate
             /\ \A d \in FloorCells : ~Less(SeedDist(d), SeedDist(c))

\* C26: a call of Voronoi::GetValue that has returned has looked at the
\* cells row by row, the rows in ascending y and the cells of a row in
\* ascending x, and the candidate is the seed point of the first cell, in
\* this order, at the least squared distance: every cell before it is
\* strictly farther and no cell after it is nearer.
C26_FirstWinsTies ==
    VoronoiDone =>
       LET pts == last.ret.points
           c == last.ret.chosen
       IN  /\ \A i, j \in 1..25 :
                 i < j => \/ pts[i].cell[2] < pts[j].cell[2]
                          \/ /\ pts[i].cell[2] = pts[j].cell[2]
                             /\ pts[i].cell[1] < pts[j].cell[1]
           /\ \A i \in 1..25 : pts[i].dist = SeedDist(pts[i].cell)
           /\ c \in 1..25
           /\ last.ret.xCandidate = pts[c].xPos
           /\ last.ret.yCandidate = pts[c].yPos
           /\ \A i \in 1..25 :
                 IF i < c THEN Less(pts[c].dist, pts[i].dist)
                 ELSE ~Less(pts[i].dist, pts[c].dist)

\* A call has returned in which two seed points are at the same, least
\* distance: the candidate is that of cell 9 of the scan and not that of
\* cell 19.
C26_Witness ==
    /\ VoronoiDone
    /\ last.ret.chosen = 9
    /\ last.ret.points[19].dist = last.ret.points[9].dist
    /\ last.ret.points[19].xPos # last.ret.points[9].xPos
    /\ last.ret.xCandidate = last.ret.points[9].xPos
    /\ \A i \in 1..25 : ~Less(last.ret.points[i].dist, last.ret.points[9].dist)

\* The array of g holds m_gradientPointCount points in strictly increasing
\* order of position.
Ordered(g) ==
    /\ Len(g.m_pGradientPoints) = g.m_gradientPointCount
    /\ \A i \in 1..Len(g.m_pGradientPoints), j \in 1..Len(g.m_pGradientPoints) :
          i < j => Less(g.m_pGradientPoints[i].pos, g.m_pGradientPoints[j].pos)

\* What AddGradientPoint(pos, color) does to gradient g: it runs to its
\* end; at the position of a point of g it raises InvalidParam and leaves g
\* as it is; where it raises nothing g has one more point, the new one,
\* and every point it had.
AddKeeps(g, pos, color, allocOk) ==
    LET r == AddGradientPoint(g, pos, color, allocOk)
        old == {g.m_pGradientPoints[i] : i \in 1..Len(g.m_pGradientPoints)}
        new == {r.g.m_pGradientPoints[i] : i \in 1..Len(r.g.m_pGradientPoints)}
    IN  /\ r.fault = "none"
        /\ (\E p \in old : p.pos = pos) => r.exc = "InvalidParam"
        /\ r.exc # "none" => r.g = g
        /\ r.exc = "none" =>
              /\ r.g.m_gradientPointCount = g.m_gradientPointCount + 1
              /\ Len(r.g.m_pGradientPoints) = Len(g.m_pGradientPoints) + 1
              /\ new = old \cup {GradientPoint(pos, color)}
              /\ Ordered(r.g)

\* C27: after any sequence of AddGradientPoint and Clear calls the points
\* are stored in strictly increasing order of position; an add at the
\* position of a stored point raises InvalidParam and leaves the list
\* unchanged, and a successful add increases the count by one and keeps
\* every previous point.
C27_OrderedPoints ==
    /\ fault = "none"
    /\ last.op # "GradientColor" => Ordered(obj)
    /\ \A pos \in GradientPositions, color \in GradientColors, ok \in BOOLEAN :
          AddKeeps(obj, pos, color, ok)

\* The same once the count has been written, by Clear or because the
\* unwritten member happened to hold 0.
C27_OnceCleared ==
    (fault = "none" /\ Len(obj.m_pGradientPoints) = obj.m_gradientPointCount) =>
        /\ Ordered(obj)
        /\ \A pos \in GradientPositions, color \in GradientColors, ok \in BOOLEAN :
              AddKeeps(obj, pos, color, ok)

\* A list of three points has refused another color at a position it holds.
C27_Refused ==
    /\ last.op = "AddGradientPoint"
    /\ last.exc = "InvalidParam"
    /\ obj.m_gradientPointCount = 3
    /\ \E i \in 1..3 :
          /\ obj.m_pGradientPoints[i].pos = last.args.pos
          /\ obj.m_pGradientPoints[i].color # last.args.color

\* The members o of a buffer agree with one another and with the heap.
Consistent(o) ==
    /\ (o.p = NULL) <=> (o.w = 0 /\ o.h = 0)
    /\ (o.w = 0 /\ o.h = 0) <=> (o.mem = 0)
    /\ (o.w = 0) <=> (o.h = 0)
    /\ o.w >= 0 /\ o.w <= RASTER_MAX_WIDTH
    /\ o.h >= 0 /\ o.h <= RASTER_MAX_HEIGHT
    /\ o.stride >= o.w
    /\ o.mem >= CalcMinMemUsage(o.w, o.h)
    /\ o.p # NULL => Len(heap[o.p].cells) = o.mem
    /\ \A x \in 0..(o.w - 1), y \in 0..(o.h - 1) :
          /\ SlabAddr(o, x, y) >= 0
          /\ SlabAddr(o, x, y) < Len(heap[o.p].cells)

\* C28: in every reachable state, after failed calls too, every buffer has
\* a store iff its width and height are nonzero iff its capacity is
\* nonzero; the dimensions are both zero or both positive and within the
\* raster limits; the stride is at least the width; the capacity covers
\* width x height and every in-range cell address lies inside the store.
C28_Consistent ==
    \A m \in Maps : alive[m] => Consistent(nm[m])

\* A SetSize has failed for want of memory and left its buffer empty,
\* while the other buffer holds more capacity than its size needs.
C28_Witness ==
    /\ last.op = "SetSize"
    /\ last.exc = "OutOfMemory"
    /\ alive[last.m]
    /\ nm[last.m].p = NULL
    /\ \E m \in Maps \ {last.m} :
          /\ alive[m]
          /\ nm[m].w > 0
          /\ nm[m].mem > CalcMinMemUsage(nm[m].w, nm[m].h)

\* C29: no store is shared or used after its release: no fault (a second
\* release, an access outside a live block) has happened, every store an
\* instance references is live, and no two instances reference the same
\* store; TakeOwnership and assignment of a buffer to itself included.
C29_NoSharedStore ==
    /\ fault = "none"
    /\ \A m \in Maps :
          (alive[m] /\ nm[m].p # NULL) => heap[nm[m].p].live
    /\ \A m1 \in Maps, m2 \in Maps :
          (alive[m1] /\ alive[m2] /\ m1 # m2 /\ nm[m1].p # NULL)
              => nm[m1].p # nm[m2].p

\* A buffer has taken ownership from itself while the other buffer holds a
\* store.
C29_Witness ==
    /\ last.op = "TakeOwnership"
    /\ last.src = last.m
    /\ fault = "none"
    /\ \E m \in Maps \ {last.m} : alive[m] /\ nm[m].p # NULL

\* World W has the border value of every buffer as it is now.
BordersKept(W) == \A m \in Maps : W.nm[m].border = nm[m].border

\* C30: SetSize (successful or failed; growing, shrinking or to a zero
\* dimension), Clear, SetValue and TakeOwnership, on the receiving and on
\* the giving buffer, leave the border value of every buffer unchanged.
C30_BorderKept ==
    \A m \in Maps :
       alive[m] =>
          /\ \A w \in PairWidths, h \in PairHeights, ok \in BOOLEAN :
                BordersKept(SetSize(World, m, w, h, ok))
          /\ \A ok \in BOOLEAN : BordersKept(ReclaimMem(World, m, ok))
          /\ \A v \in Values : BordersKept(Clear(World, m, v))
          /\ \A x \in PairCoords, y \in PairCoords, v \in Values :
                BordersKept(SetValue(World, m, x, y, v))
          /\ \A source \in Maps :
                alive[source] => BordersKept(TakeOwnership(World, m, source))

\* What does hold: ReclaimMem, Clear and SetValue keep the border values,
\* and so does a SetSize that does not go through InitObj.
C30_KeptWithoutReset ==
    \A m \in Maps :
       alive[m] =>
          /\ \A w \in PairWidths, h \in PairHeights, ok \in BOOLEAN :
                (w > 0 /\ h > 0 /\ nm[m].mem >= CalcMinMemUsage(w, h))
                    => BordersKept(SetSize(World, m, w, h, ok))
          /\ \A ok \in BOOLEAN : BordersKept(ReclaimMem(World, m, ok))
          /\ \A v \in Values : BordersKept(Clear(World, m, v))
          /\ \A x \in PairCoords, y \in PairCoords, v \in Values :
                BordersKept(SetValue(World, m, x, y, v))
          /\ \A source \in Maps :
                alive[source] =>
                   TakeOwnership(World, m, source).nm[m].border = nm[m].border

====
